---- MODULE Spec2Model ----
(***************************************************************************)
(* TRON (starfederation/tron-ts): the byte-level codec (src/src/codec.ts,  *)
(* third revision, lines 2189-3358) and the lazy view (src/src/tron.ts,    *)
(* second revision, lines 1043-1940).                                      *)
(*                                                                         *)
(* A buffer is a sequence of bytes; byte offset o of the source is element *)
(* o + 1 of the sequence.  A host value (TronValue) is a record tagged by  *)
(* t: "nil", "bit" (b), "i64" (n), "txt"/"bin" (s, a byte sequence),       *)
(* "arr" (a, a sequence of values) or "map" (m, a sequence of [k, v]       *)
(* records in Object.keys order, the keys pairwise distinct).  "i64" is a  *)
(* number that is a safe integer; "f64" (bits, the 8 bytes of the double)  *)
(* is any other number, "big" (z) a bigint; "undef", "fn" and "inst" are   *)
(* undefined, a function and an object with a prototype of its own; "up"   *)
(* (n) is the container n levels up, the same object again.                *)
(***************************************************************************)
EXTENDS Integers, Sequences, FiniteSets, TLC

\* const r = value; Body(r): a result is computed once and then used
Bind(value, Body(_)) == Body(value)

VARIABLES
    buf,      \* codec level: the buffer returned by the last successful operation
    inBuf,    \* codec level: the buffer that operation was applied to
    op,       \* codec level: the last operation [name, path, value]
    err,      \* codec level: "" or the error the last operation threw
    nops,     \* codec level: operations issued so far
    heap,     \* view level: the Uint8Array objects, by identity
    views,    \* view level: one RootState per opened view
    last,     \* view level: the last proxy access and what it returned
    solo      \* view level: the second view, run without the first one

vars == <<buf, inBuf, op, err, nops, heap, views, last, solo>>
codecVars == <<buf, inBuf, op, err, nops>>
viewVars == <<heap, views, last, solo>>

RECURSIVE BitAnd(_, _), BitOr(_, _), computeNodeLenFrom(_, _), LEBytes(_, _),
          readLE(_, _, _), buildMapNode(_, _), buildArrayNode(_, _, _),
          valueFromAny(_), encodeValueNode(_, _), encodeMapNode(_, _),
          encodeArrayNode(_, _, _), setPathAt(_, _, _, _),
          setMapPath(_, _, _, _, _, _, _), setArrayPath(_, _, _, _, _),
          decodeValueAt(_, _), viewValueAt(_, _)

(***************************************************************************)
(* Byte primitives                                                         *)
(***************************************************************************)
HEADER_SIZE == 4
FOOTER_SIZE == 8
MAGIC == <<84, 82, 79, 78>>

Nil == 0
Bit == 1
I64 == 2
F64 == 3
Txt == 4
Bin == 5
Arr == 6
Map == 7

Branch == 0
Leaf == 1

maxDepth32 == 7

\* bit i of a non-negative value
BitOf(value, i) == (value \div (2 ^ i)) % 2

\* a & b on non-negative integers, four bits at a time
BitAnd(a, b) ==
    IF a = 0 \/ b = 0 THEN 0
    ELSE BitOf(a, 0) * BitOf(b, 0) + 2 * (BitOf(a, 1) * BitOf(b, 1))
         + 4 * (BitOf(a, 2) * BitOf(b, 2)) + 8 * (BitOf(a, 3) * BitOf(b, 3))
         + 16 * BitAnd(a \div 16, b \div 16)

\* a | b on non-negative integers, four bits at a time
BitOr(a, b) ==
    IF a = 0 THEN b
    ELSE IF b = 0 THEN a
    ELSE (BitOf(a, 0) + BitOf(b, 0) - BitOf(a, 0) * BitOf(b, 0))
         + 2 * (BitOf(a, 1) + BitOf(b, 1) - BitOf(a, 1) * BitOf(b, 1))
         + 4 * (BitOf(a, 2) + BitOf(b, 2) - BitOf(a, 2) * BitOf(b, 2))
         + 8 * (BitOf(a, 3) + BitOf(b, 3) - BitOf(a, 3) * BitOf(b, 3))
         + 16 * BitOr(a \div 16, b \div 16)

\* (value >>> n) for a non-negative value
Shr(value, n) == value \div (2 ^ n)

\* ((bitmap >>> slot) & 1)
SlotBit(bitmap, slot) == BitAnd(Shr(bitmap, slot), 1)

\* n little-endian bytes of a non-negative value
LEBytes(value, n) ==
    IF n = 0 THEN <<>> ELSE <<value % 256>> \o LEBytes(value \div 256, n - 1)

\* the n little-endian bytes at byte offset off
readLE(b, off, n) ==
    IF n = 0 THEN 0 ELSE b[off + 1] + 256 * readLE(b, off + 1, n - 1)

\* A bigint z is [neg, mag]: mag holds the 9 little-endian bytes of z when
\* z >= 0 and of -z - 1 when z < 0
BigInt(n) == [neg |-> n < 0, mag |-> LEBytes(IF n < 0 THEN -n - 1 ELSE n, 9)]

\* x < y for bigints; a < b for their 9-byte magnitudes
ZLess(x, y) ==
    LET MagLess(a, b) == \E i \in 1..9 : a[i] < b[i] /\ \A j \in (i + 1)..9 : a[j] = b[j]
    IN  IF x.neg # y.neg THEN x.neg
        ELSE IF x.neg THEN MagLess(y.mag, x.mag) ELSE MagLess(x.mag, y.mag)

\* -(1n << 63n) and (1n << 63n) - 1n
I64Range ==
    [min |-> [neg |-> TRUE, mag |-> <<255, 255, 255, 255, 255, 255, 255, 127, 0>>],
     max |-> [neg |-> FALSE, mag |-> <<255, 255, 255, 255, 255, 255, 255, 127, 0>>]]

\* Number.MIN_SAFE_INTEGER and Number.MAX_SAFE_INTEGER: -(2^53 - 1), 2^53 - 1
SafeRange ==
    [min |-> [neg |-> TRUE, mag |-> <<254, 255, 255, 255, 255, 255, 31, 0, 0>>],
     max |-> [neg |-> FALSE, mag |-> <<255, 255, 255, 255, 255, 255, 31, 0, 0>>]]

\* Number.isFinite of the double with these 8 bytes: the exponent is not 0x7ff
IsFinite(bits) == ~(BitAnd(bits[8], 127) = 127 /\ BitAnd(bits[7], 240) = 240)

writeUint16LE(value) == LEBytes(BitAnd(value, 65535), 2)
writeUint32LE(value) == LEBytes(value, 4)
readUint16LE(b, off) == readLE(b, off, 2)
readUint32LE(b, off) == readLE(b, off, 4)

popcount16(value) ==
    LET v0 == BitAnd(value, 65535)
        v1 == v0 - BitAnd(Shr(v0, 1), 21845)
        v2 == BitAnd(v1, 13107) + BitAnd(Shr(v1, 2), 13107)
        v3 == BitAnd(v2 + Shr(v2, 4), 3855)
        v4 == v3 + Shr(v3, 8)
    IN  BitAnd(v4, 31)

\* a comparison that never finds the key
bytesEqualNever(a, b) == FALSE

bytesEqual(a, b) ==
    /\ Len(a) = Len(b)
    /\ \A i \in 1..Len(a) : a[i] = b[i]

lengthBytesU32(value) ==
    IF value <= 255 THEN 1
    ELSE IF value <= 65535 THEN 2
    ELSE IF value <= 16777215 THEN 3
    ELSE 4

\* lengths of the model stay far below 2^31, the later cases of the source
\* (5 to 8 length bytes) need lengths of 4 GiB and more
lengthBytesU64(length) == lengthBytesU32(length)

computeNodeLenFrom(payloadLen, lenBytes) ==
    LET nodeLen == 1 + lenBytes + payloadLen
        needed == lengthBytesU32(nodeLen)
    IN  IF needed = lenBytes THEN [nodeLen |-> nodeLen, lenBytes |-> lenBytes]
        ELSE computeNodeLenFrom(payloadLen, needed)

computeNodeLen(payloadLen) == computeNodeLenFrom(payloadLen, 1)

\* xxh32(key, 0) of the keys of the model: "a", "d", "f", "i", "m", "o",
\* "tqt", "dluw" (the last two have the same 32-bit hash)
keyA == <<97>>
keyD == <<100>>
keyF == <<102>>
keyI == <<105>>
keyM == <<109>>
keyO == <<111>>
keyTqt == <<116, 113, 116>>
keyDluw == <<100, 108, 117, 119>>

xxh32(keyBytes) ==
    CASE keyBytes = keyA -> 1426945110
      [] keyBytes = keyD -> 1123242640
      [] keyBytes = keyF -> 1729662580
      [] keyBytes = keyI -> 1114727716
      [] keyBytes = keyM -> 811278473
      [] keyBytes = keyO -> 883407241
      [] keyBytes = keyTqt -> 1523422277
      [] keyBytes = keyDluw -> 1523422277

(***************************************************************************)
(* Reading node headers and byte strings                                   *)
(***************************************************************************)
readValueTypeAt(tronBytes, offset) == BitAnd(tronBytes[offset + 1], 7)

readBytesLength(tronBytes, offset) ==
    LET tag == tronBytes[offset + 1]
        isPacked == BitAnd(tag, 8) # 0
        nibble == Shr(tag, 4)
    IN  IF isPacked THEN [length |-> nibble, headerSize |-> 1]
        ELSE [length |-> readLE(tronBytes, offset + 1, nibble),
              headerSize |-> 1 + nibble]

readNodeHeader(tronBytes, offset) ==
    LET tag == tronBytes[offset + 1]
        type == BitAnd(tag, 7)
        lenBytes == BitAnd(Shr(tag, 4), 3) + 1
    IN  [type |-> type,
         isLeaf |-> BitAnd(tag, 8) # 0,
         isRoot |-> IF type = Arr THEN BitAnd(tag, 64) = 0 ELSE FALSE,
         nodeLen |-> readLE(tronBytes, offset + 1, lenBytes),
         headerSize |-> 1 + lenBytes]

readTxtBytesAt(tronBytes, offset) ==
    LET bl == readBytesLength(tronBytes, offset)
        start == offset + bl.headerSize
    IN  SubSeq(tronBytes, start + 1, start + bl.length)

\* "" when readRootOffset returns, else the error it throws
readRootOffsetErr(tronBytes) ==
    IF Len(tronBytes) < HEADER_SIZE + FOOTER_SIZE THEN "short"
    ELSE IF \E i \in 1..Len(MAGIC) : tronBytes[i] # MAGIC[i] THEN "magic"
    ELSE LET footerStart == Len(tronBytes) - FOOTER_SIZE
             rootOffset == readUint32LE(tronBytes, footerStart)
         IN  IF rootOffset < HEADER_SIZE \/ rootOffset >= footerStart THEN "off"
             ELSE ""

readRootOffset(tronBytes) == readUint32LE(tronBytes, Len(tronBytes) - FOOTER_SIZE)

\* the footer's second field
readPrevRootOffset(tronBytes) == readUint32LE(tronBytes, Len(tronBytes) - FOOTER_SIZE + 4)

(***************************************************************************)
(* Tree builders                                                           *)
(***************************************************************************)
Slots16 == <<0, 1, 2, 3, 4, 5, 6, 7, 8, 9, 10, 11, 12, 13, 14, 15>>

RECURSIVE BitmapOfRange(_, _, _), InsertSorted(_, _), SortEntries(_),
          KeyCompareFrom(_, _, _), RootShift(_, _)

\* bitmap |= 1 << slot, over slots[lo..hi]
BitmapOfRange(slots, lo, hi) ==
    IF lo > hi THEN 0
    ELSE IF lo = hi THEN 2 ^ slots[lo]
    ELSE BitOr(BitmapOfRange(slots, lo, (lo + hi) \div 2),
               BitmapOfRange(slots, (lo + hi) \div 2 + 1, hi))

\* bitmap |= 1 << slot, over the slots of a sequence
BitmapOfSlots(slots) == BitmapOfRange(slots, 1, Len(slots))

\* the 4-byte little-endian fields of a sequence of offsets
ConcatU32(offs) ==
    [i \in 1..4 * Len(offs) |-> writeUint32LE(offs[(i - 1) \div 4 + 1])[((i - 1) % 4) + 1]]

\* the comparator of the sort in buildMapNode: -1, 0 or 1
KeyCompareFrom(a, b, i) ==
    LET len == IF Len(a) < Len(b) THEN Len(a) ELSE Len(b)
    IN  IF i > len
        THEN IF Len(a) = Len(b) THEN 0 ELSE IF Len(a) < Len(b) THEN -1 ELSE 1
        ELSE IF a[i] # b[i] THEN (IF a[i] < b[i] THEN -1 ELSE 1)
        ELSE KeyCompareFrom(a, b, i + 1)

KeyCompare(a, b) == KeyCompareFrom(a, b, 1)

\* Array.prototype.sort is stable: an entry goes after the entries it equals
InsertSorted(sorted, e) ==
    IF sorted = <<>> THEN <<e>>
    ELSE IF KeyCompare(e.key, Head(sorted).key) < 0 THEN <<e>> \o sorted
    ELSE <<Head(sorted)>> \o InsertSorted(Tail(sorted), e)

\* a sort that leaves the entries in the order they came in
SortEntriesKeepOrder(entries) == entries

SortEntries(entries) ==
    IF entries = <<>> THEN <<>>
    ELSE InsertSorted(SortEntries(SubSeq(entries, 1, Len(entries) - 1)),
                      entries[Len(entries)])

MapSlot(hash, depth) == BitAnd(Shr(hash, depth * 4), 15)

\* buildMapNode that collapses into a sorted leaf one level later
buildMapNodeDeep(entries, depth) ==
    IF Len(entries) = 0 THEN [kind |-> Leaf, bitmap |-> 0, entries |-> <<>>]
    ELSE IF Len(entries) = 1 THEN [kind |-> Leaf, bitmap |-> 0, entries |-> entries]
    ELSE IF depth >= maxDepth32 + 1
    THEN [kind |-> Leaf, bitmap |-> 0, entries |-> SortEntries(entries)]
    ELSE LET group(slot) == SelectSeq(entries, LAMBDA e : MapSlot(e.hash, depth) = slot)
             active == SelectSeq(Slots16, LAMBDA slot : Len(group(slot)) > 0)
         IN  [kind |-> Branch, bitmap |-> BitmapOfSlots(active),
              children |-> [i \in 1..Len(active) |->
                               buildMapNode(group(active[i]), depth + 1)]]

buildMapNode(entries, depth) ==
    IF Len(entries) = 0 THEN [kind |-> Leaf, bitmap |-> 0, entries |-> <<>>]
    ELSE IF Len(entries) = 1 THEN [kind |-> Leaf, bitmap |-> 0, entries |-> entries]
    ELSE IF depth >= maxDepth32
    THEN [kind |-> Leaf, bitmap |-> 0, entries |-> SortEntries(entries)]
    ELSE LET group(slot) == SelectSeq(entries, LAMBDA e : MapSlot(e.hash, depth) = slot)
             active == SelectSeq(Slots16, LAMBDA slot : Len(group(slot)) > 0)
         IN  IF Len(active) = 1
             THEN [kind |-> Branch, bitmap |-> 2 ^ active[1],
                   children |-> <<buildMapNode(group(active[1]), depth + 1)>>]
             ELSE [kind |-> Branch, bitmap |-> BitmapOfSlots(active),
                   children |-> [i \in 1..Len(active) |->
                                    buildMapNode(group(active[i]), depth + 1)]]

\* slotValues[slot] = entry.value, the last entry of a slot wins
LastOfSlot(entries, slot) ==
    LET hits == SelectSeq(entries, LAMBDA e : BitAnd(e.index, 15) = slot)
    IN  hits[Len(hits)].value

buildArrayNode(entries, shift, length) ==
    IF Len(entries) = 0 /\ shift = 0
    THEN [kind |-> Leaf, shift |-> 0, bitmap |-> 0, length |-> length, values |-> <<>>]
    ELSE IF shift = 0
    THEN LET active == SelectSeq(Slots16,
                 LAMBDA slot : \E i \in 1..Len(entries) : BitAnd(entries[i].index, 15) = slot)
         IN  [kind |-> Leaf, shift |-> 0, bitmap |-> BitmapOfSlots(active),
              length |-> length,
              values |-> [i \in 1..Len(active) |-> LastOfSlot(entries, active[i])]]
    ELSE LET group(slot) ==
                 SelectSeq(entries, LAMBDA e : BitAnd(Shr(e.index, shift), 15) = slot)
             active == SelectSeq(Slots16, LAMBDA slot : Len(group(slot)) > 0)
         IN  [kind |-> Branch, shift |-> shift, bitmap |-> BitmapOfSlots(active),
              length |-> length,
              children |-> [i \in 1..Len(active) |->
                               buildArrayNode(group(active[i]), shift - 4, 0)]]

\* a root shift that grows once at most
RootShiftOnce(maxIndex, shift) ==
    IF Shr(maxIndex, shift) > 15 THEN shift + 4 ELSE shift

\* while ((maxIndex >>> shift) > 0x0f) shift += 4
RootShift(maxIndex, shift) ==
    IF Shr(maxIndex, shift) > 15 THEN RootShift(maxIndex, shift + 4) ELSE shift

\* calls of valueFromAny the engine nests before it throws its RangeError
\* (maximum call stack size exceeded), "stack" below
MaxCallDepth == 5

RECURSIVE valueFromAnyErr(_, _, _), valueFromAnyErrNoRange(_, _, _)

\* the error first thrown among the elements, in order
FirstErr(errs) ==
    IF \A i \in 1..Len(errs) : errs[i] = "" THEN ""
    ELSE errs[CHOOSE i \in 1..Len(errs) :
                 errs[i] # "" /\ \A j \in 1..(i - 1) : errs[j] = ""]

\* valueFromAny without the range test of the bigint branch
valueFromAnyErrNoRange(value, stack, depth) ==
    IF depth > MaxCallDepth THEN "stack"
    ELSE CASE value.t \in {"nil", "bit", "txt", "i64", "bin", "big"} -> ""
           [] value.t = "f64" -> IF IsFinite(value.bits) THEN "" ELSE "num"
           [] value.t = "arr" ->
                 FirstErr([i \in 1..Len(value.a) |->
                     valueFromAnyErrNoRange(value.a[i], <<value>> \o stack, depth + 1)])
           [] value.t = "inst" -> "type"
           [] value.t = "map" ->
                 FirstErr([i \in 1..Len(value.m) |->
                     valueFromAnyErrNoRange(value.m[i].v, <<value>> \o stack, depth + 1)])
           [] value.t = "up" ->
                 valueFromAnyErrNoRange(stack[value.n],
                                        SubSeq(stack, value.n + 1, Len(stack)), depth)
           [] OTHER -> "type"

\* what valueFromAny(value) throws, "" when it returns; stack lists the
\* containers value lies in, innermost first, depth counts the nested calls
valueFromAnyErr(value, stack, depth) ==
    IF depth > MaxCallDepth THEN "stack"
    ELSE CASE value.t \in {"nil", "bit", "txt", "i64", "bin"} -> ""
           [] value.t = "f64" -> IF IsFinite(value.bits) THEN "" ELSE "num"
           [] value.t = "big" ->
                 IF ZLess(value.z, I64Range.min) \/ ZLess(I64Range.max, value.z) THEN "range" ELSE ""
           [] value.t = "arr" ->
                 FirstErr([i \in 1..Len(value.a) |->
                     valueFromAnyErr(value.a[i], <<value>> \o stack, depth + 1)])
           [] value.t = "inst" -> "type"
           [] value.t = "map" ->
                 FirstErr([i \in 1..Len(value.m) |->
                     valueFromAnyErr(value.m[i].v, <<value>> \o stack, depth + 1)])
           [] value.t = "up" ->
                 valueFromAnyErr(stack[value.n], SubSeq(stack, value.n + 1, Len(stack)),
                                 depth)
           [] OTHER -> "type"

\* EncodedValue: offset is -1 where the source has undefined
valueFromAny(value) ==
    CASE value.t = "nil" -> [type |-> Nil, offset |-> -1]
      [] value.t = "bit" -> [type |-> Bit, offset |-> -1, bool |-> value.b]
      [] value.t = "txt" -> [type |-> Txt, offset |-> -1, bytes |-> value.s]
      [] value.t = "i64" -> [type |-> I64, offset |-> -1, i64 |-> BigInt(value.n)]
      [] value.t = "f64" -> [type |-> F64, offset |-> -1, f64 |-> value.bits]
      [] value.t = "big" -> [type |-> I64, offset |-> -1, i64 |-> value.z]
      [] value.t = "bin" -> [type |-> Bin, offset |-> -1, bytes |-> value.s]
      [] value.t = "arr" ->
            LET entries == [i \in 1..Len(value.a) |->
                               [index |-> i - 1, value |-> valueFromAny(value.a[i])]]
                length == Len(value.a)
                shift == IF length > 0 THEN RootShift(length - 1, 0) ELSE 0
            IN  [type |-> Arr, offset |-> -1,
                 node |-> buildArrayNode(entries, shift, length)]
      [] value.t = "map" ->
            IF Len(value.m) = 0
            THEN [type |-> Map, offset |-> -1,
                  node |-> [kind |-> Leaf, bitmap |-> 0, entries |-> <<>>]]
            ELSE LET entries == [i \in 1..Len(value.m) |->
                                    [key |-> value.m[i].k,
                                     value |-> valueFromAny(value.m[i].v),
                                     hash |-> xxh32(value.m[i].k)]]
                 IN  [type |-> Map, offset |-> -1, node |-> buildMapNode(entries, 0)]

(***************************************************************************)
(* Node append: every operator returns the grown builder and the offset    *)
(***************************************************************************)
RECURSIVE encodeMapEntries(_, _, _, _), encodeMapChildren(_, _, _, _),
          encodeArrayValues(_, _, _, _), encodeArrayChildren(_, _, _, _)

\* DataView.setBigInt64(0, n, true): 8 bytes, two's complement
I64Bytes(z) == [i \in 1..8 |-> IF z.neg THEN 255 - z.mag[i] ELSE z.mag[i]]

\* DataView.getBigInt64(0, true) of the 8 bytes that follow the tag at offset,
\* as a bigint
getBigInt64(tronBytes, offset) ==
    LET neg == tronBytes[offset + 9] >= 128
    IN  [neg |-> neg,
         mag |-> [i \in 1..9 |->
                     IF i = 9 THEN 0
                     ELSE IF neg THEN 255 - tronBytes[offset + 1 + i]
                     ELSE tronBytes[offset + 1 + i]]]

\* Number(i64) of the stored integer, for a magnitude below 2^31
I64At(tronBytes, offset) ==
    IF tronBytes[offset + 9] >= 128
    THEN -1 - readLE([i \in 1..8 |-> 255 - tronBytes[offset + 1 + i]], 0, 8)
    ELSE readLE(tronBytes, offset + 1, 8)

encodeBytesNode(builder, type, bytes) ==
    LET length == Len(bytes)
        lenBytes == lengthBytesU64(length)
    IN  IF length <= 15
        THEN [buf |-> builder \o <<BitOr(BitOr(BitAnd(length, 15) * 16, 8), type)>> \o bytes,
              off |-> Len(builder)]
        ELSE [buf |-> builder \o <<BitOr(BitAnd(lenBytes, 15) * 16, type)>>
                              \o LEBytes(length, lenBytes) \o bytes,
              off |-> Len(builder)]

\* tag, length bytes and payload of a map leaf
MapLeafBytes(offs) ==
    LET nl == computeNodeLen((Len(offs) \div 2) * 8)
        tag == BitOr(BitOr(Map, (nl.lenBytes - 1) * 16), 8)
    IN  <<tag>> \o LEBytes(nl.nodeLen, nl.lenBytes) \o ConcatU32(offs)

\* tag, length bytes and payload of a map branch
MapBranchBytes(bitmap, childOffsets) ==
    LET nl == computeNodeLen(4 + 4 * Len(childOffsets))
        tag == BitOr(Map, (nl.lenBytes - 1) * 16)
    IN  <<tag>> \o LEBytes(nl.nodeLen, nl.lenBytes)
                \o writeUint32LE(bitmap) \o ConcatU32(childOffsets)

\* tag, length bytes and payload of an array node
ArrayNodeBytes(kind, shift, bitmap, length, isRoot, offs) ==
    LET nl == computeNodeLen(1 + 2 + (IF isRoot THEN 4 ELSE 0) + 4 * Len(offs))
        tag0 == BitOr(BitOr(Arr, (nl.lenBytes - 1) * 16), IF kind = Leaf THEN 8 ELSE 0)
        tag == IF isRoot THEN tag0 ELSE BitOr(tag0, 64)
    IN  <<tag>> \o LEBytes(nl.nodeLen, nl.lenBytes)
                \o <<BitAnd(shift, 255)>> \o writeUint16LE(bitmap)
                \o (IF isRoot THEN writeUint32LE(length) ELSE <<>>)
                \o ConcatU32(offs)

encodeValueNode(builder, value) ==
    IF value.offset # -1 THEN [buf |-> builder, off |-> value.offset]
    ELSE CASE value.type = Nil -> [buf |-> builder \o <<0>>, off |-> Len(builder)]
           [] value.type = Bit ->
                 [buf |-> builder \o <<BitOr(IF value.bool THEN 8 ELSE 0, 1)>>,
                  off |-> Len(builder)]
           [] value.type = I64 ->
                 [buf |-> builder \o <<2>> \o I64Bytes(value.i64), off |-> Len(builder)]
           [] value.type = F64 ->
                 [buf |-> builder \o <<3>> \o value.f64, off |-> Len(builder)]
           [] value.type \in {Txt, Bin} ->
                 encodeBytesNode(builder, value.type, value.bytes)
           [] value.type = Arr -> encodeArrayNode(builder, value.node, TRUE)
           [] value.type = Map -> encodeMapNode(builder, value.node)

\* the loop over entries[lo..hi] of a leaf, in order: key node, then value
\* node; the first half of the range is appended before the second
encodeMapEntries(builder, entries, lo, hi) ==
    IF lo > hi THEN [buf |-> builder, offs |-> <<>>]
    ELSE IF lo = hi
    THEN Bind(encodeBytesNode(builder, Txt, entries[lo].key), LAMBDA k :
         Bind(encodeValueNode(k.buf, entries[lo].value), LAMBDA v :
             [buf |-> v.buf, offs |-> <<k.off, v.off>>]))
    ELSE Bind(encodeMapEntries(builder, entries, lo, (lo + hi) \div 2), LAMBDA first :
             IF Len(first.offs) > 0
             THEN Bind(encodeMapEntries(first.buf, entries, (lo + hi) \div 2 + 1, hi),
                       LAMBDA rest : [buf |-> rest.buf, offs |-> first.offs \o rest.offs])
             ELSE first)

\* the loop over children[lo..hi] of a map branch, in order
encodeMapChildren(builder, children, lo, hi) ==
    IF lo > hi THEN [buf |-> builder, offs |-> <<>>]
    ELSE IF lo = hi
    THEN Bind(encodeMapNode(builder, children[lo]), LAMBDA c :
             [buf |-> c.buf, offs |-> <<c.off>>])
    ELSE Bind(encodeMapChildren(builder, children, lo, (lo + hi) \div 2), LAMBDA first :
             IF Len(first.offs) > 0
             THEN Bind(encodeMapChildren(first.buf, children, (lo + hi) \div 2 + 1, hi),
                       LAMBDA rest : [buf |-> rest.buf, offs |-> first.offs \o rest.offs])
             ELSE first)

encodeMapNode(builder, node) ==
    IF node.kind = Leaf
    THEN Bind(encodeMapEntries(builder, node.entries, 1, Len(node.entries)), LAMBDA r :
             [buf |-> r.buf \o MapLeafBytes(r.offs), off |-> Len(r.buf)])
    ELSE Bind(encodeMapChildren(builder, node.children, 1, Len(node.children)),
              LAMBDA r :
             [buf |-> r.buf \o MapBranchBytes(node.bitmap, r.offs), off |-> Len(r.buf)])

\* the loop over values[lo..hi] of an array leaf, in order
encodeArrayValues(builder, values, lo, hi) ==
    IF lo > hi THEN [buf |-> builder, offs |-> <<>>]
    ELSE IF lo = hi
    THEN Bind(encodeValueNode(builder, values[lo]), LAMBDA v :
             [buf |-> v.buf, offs |-> <<v.off>>])
    ELSE Bind(encodeArrayValues(builder, values, lo, (lo + hi) \div 2), LAMBDA first :
             IF Len(first.offs) > 0
             THEN Bind(encodeArrayValues(first.buf, values, (lo + hi) \div 2 + 1, hi),
                       LAMBDA rest : [buf |-> rest.buf, offs |-> first.offs \o rest.offs])
             ELSE first)

\* the loop over children[lo..hi] of an array branch, in order
encodeArrayChildren(builder, children, lo, hi) ==
    IF lo > hi THEN [buf |-> builder, offs |-> <<>>]
    ELSE IF lo = hi
    THEN Bind(encodeArrayNode(builder, children[lo], FALSE), LAMBDA c :
             [buf |-> c.buf, offs |-> <<c.off>>])
    ELSE Bind(encodeArrayChildren(builder, children, lo, (lo + hi) \div 2),
              LAMBDA first :
             IF Len(first.offs) > 0
             THEN Bind(encodeArrayChildren(first.buf, children, (lo + hi) \div 2 + 1, hi),
                       LAMBDA rest : [buf |-> rest.buf, offs |-> first.offs \o rest.offs])
             ELSE first)

encodeArrayNode(builder, node, isRoot) ==
    Bind(IF node.kind = Leaf
         THEN encodeArrayValues(builder, node.values, 1, Len(node.values))
         ELSE encodeArrayChildren(builder, node.children, 1, Len(node.children)),
         LAMBDA r :
        [buf |-> r.buf \o ArrayNodeBytes(node.kind, node.shift, node.bitmap,
                                         node.length, isRoot, r.offs),
         off |-> Len(r.buf)])

\* what encode(value) throws, "" when it returns a buffer
encodeErr(value) == valueFromAnyErr(value, <<>>, 1)

encode(value) ==
    Bind(encodeValueNode(MAGIC, valueFromAny(value)), LAMBDA r :
        r.buf \o writeUint32LE(r.off) \o writeUint32LE(0))

(***************************************************************************)
(* The full decoder (the closures of canonical)                            *)
(***************************************************************************)
RECURSIVE arrayWalk(_, _, _), arrayWalkChildren(_, _, _, _, _, _), mapWalk(_, _),
          mapWalkChildren(_, _, _, _), PutEntry(_, _), CollapseKeys(_)

\* the slots of a 16-slot bitmap, ascending
ActiveSlots(bitmap) == SelectSeq(Slots16, LAMBDA slot : SlotBit(bitmap, slot) # 0)

\* the count 4-byte offsets stored from byte offset start on
ReadOffsets(tronBytes, start, count) ==
    [i \in 1..count |-> readUint32LE(tronBytes, start + 4 * (i - 1))]

\* walk of decodeArrayAt: the (index, value offset) pairs in the order of values.set
arrayWalk(tronBytes, nodeOffset, baseIndex) ==
    LET nodeHeader == readNodeHeader(tronBytes, nodeOffset)
        start == nodeOffset + nodeHeader.headerSize
        nodeShift == tronBytes[start + 1]
        nodeBitmap == readUint16LE(tronBytes, start + 1)
        addressesStart == start + 3 + (IF nodeHeader.isRoot THEN 4 ELSE 0)
        active == ActiveSlots(nodeBitmap)
    IN  IF nodeHeader.isLeaf
        THEN [i \in 1..Len(active) |->
                 [index |-> baseIndex + active[i],
                  off |-> readUint32LE(tronBytes, addressesStart + 4 * (i - 1))]]
        ELSE arrayWalkChildren(tronBytes, addressesStart, active, 1, baseIndex, nodeShift)

arrayWalkChildren(tronBytes, addressesStart, active, i, baseIndex, nodeShift) ==
    IF i > Len(active) THEN <<>>
    ELSE arrayWalk(tronBytes, readUint32LE(tronBytes, addressesStart + 4 * (i - 1)),
                   baseIndex + active[i] * (2 ^ nodeShift))
         \o arrayWalkChildren(tronBytes, addressesStart, active, i + 1, baseIndex, nodeShift)

\* walk of decodeMapAt: the (key, value offset) pairs in the order of out[key] = ...
mapWalk(tronBytes, nodeOffset) ==
    LET header == readNodeHeader(tronBytes, nodeOffset)
        payloadStart == nodeOffset + header.headerSize
        entryCount == (header.nodeLen - header.headerSize) \div 8
        bitmap == readUint32LE(tronBytes, payloadStart)
    IN  IF header.isLeaf
        THEN [i \in 1..entryCount |->
                 [k |-> readTxtBytesAt(tronBytes,
                            readUint32LE(tronBytes, payloadStart + 8 * (i - 1))),
                  off |-> readUint32LE(tronBytes, payloadStart + 8 * (i - 1) + 4)]]
        ELSE mapWalkChildren(tronBytes, payloadStart + 4,
                             Len(ActiveSlots(bitmap)), 1)

mapWalkChildren(tronBytes, p, count, i) ==
    IF i > count THEN <<>>
    ELSE mapWalk(tronBytes, readUint32LE(tronBytes, p + 4 * (i - 1)))
         \o mapWalkChildren(tronBytes, p, count, i + 1)

\* out[e.k] = e.v on an object kept as its entries in Object.keys order
PutEntry(out, e) ==
    IF out = <<>> THEN <<e>>
    ELSE IF Head(out).k = e.k THEN <<e>> \o Tail(out)
    ELSE <<Head(out)>> \o PutEntry(Tail(out), e)

CollapseKeys(entries) ==
    IF entries = <<>> THEN <<>>
    ELSE PutEntry(CollapseKeys(SubSeq(entries, 1, Len(entries) - 1)),
                  entries[Len(entries)])

decodeArrayAt(tronBytes, offset) ==
    LET header == readNodeHeader(tronBytes, offset)
        payloadStart == offset + header.headerSize
        length == readUint32LE(tronBytes, payloadStart + 3)
        values == arrayWalk(tronBytes, offset, 0)
        hits(i) == SelectSeq(values, LAMBDA e : e.index = i)
    IN  IF header.type # Arr \/ ~header.isRoot THEN [t |-> "err", e |-> "type"]
        ELSE IF \E j \in 1..Len(values) : values[j].index >= length
        THEN [t |-> "err", e |-> "len"]
        ELSE [t |-> "arr",
              a |-> [i \in 1..length |->
                        IF Len(hits(i - 1)) = 0 THEN [t |-> "nil"]
                        ELSE decodeValueAt(tronBytes, hits(i - 1)[Len(hits(i - 1))].off)]]

decodeMapAt(tronBytes, offset) ==
    LET walked == mapWalk(tronBytes, offset)
    IN  [t |-> "map",
         m |-> CollapseKeys([i \in 1..Len(walked) |->
                   [k |-> walked[i].k, v |-> decodeValueAt(tronBytes, walked[i].off)]])]

decodeValueAt(tronBytes, offset) ==
    LET tag == tronBytes[offset + 1]
        type == BitAnd(tag, 7)
    IN  CASE type = Nil -> [t |-> "nil"]
          [] type = Bit -> [t |-> "bit", b |-> BitAnd(tag, 8) # 0]
          [] type = I64 ->
                IF ZLess(getBigInt64(tronBytes, offset), SafeRange.min)
                   \/ ZLess(SafeRange.max, getBigInt64(tronBytes, offset))
                THEN [t |-> "big", z |-> getBigInt64(tronBytes, offset)]
                ELSE [t |-> "i64", n |-> I64At(tronBytes, offset)]
          [] type = F64 ->
                IF IsFinite(SubSeq(tronBytes, offset + 2, offset + 9))
                THEN [t |-> "f64", bits |-> SubSeq(tronBytes, offset + 2, offset + 9)]
                ELSE [t |-> "err", e |-> "num"]
          [] type \in {Txt, Bin} ->
                LET bl == readBytesLength(tronBytes, offset)
                    start == offset + bl.headerSize
                IN  [t |-> IF type = Txt THEN "txt" ELSE "bin",
                     s |-> SubSeq(tronBytes, start + 1, start + bl.length)]
          [] type = Arr -> decodeArrayAt(tronBytes, offset)
          [] type = Map -> decodeMapAt(tronBytes, offset)
          [] OTHER -> [t |-> "err", e |-> "type"]

\* the value of the current root, as canonical decodes it
decode(tronBytes) == decodeValueAt(tronBytes, readRootOffset(tronBytes))

\* detectType that takes a map root for a scalar
detectTypeArrOnly(tronBytes) ==
    IF readValueTypeAt(tronBytes, readRootOffset(tronBytes)) = Arr THEN "tree" ELSE "scalar"

detectType(tronBytes) ==
    LET type == readValueTypeAt(tronBytes, readRootOffset(tronBytes))
    IN  IF type = Arr \/ type = Map THEN "tree" ELSE "scalar"

(***************************************************************************)
(* Copy-on-write update.  A path segment is [isNum, num, str]: a number    *)
(* (array index) or a string (map key, as its UTF-8 bytes).  The operators *)
(* return the grown builder, the offset of the replacement node and the    *)
(* error thrown ("" when none).                                            *)
(***************************************************************************)
KeySeg(keyBytes) == [isNum |-> FALSE, num |-> 0, str |-> keyBytes]
IdxSeg(index) == [isNum |-> TRUE, num |-> index, str |-> <<>>]

Ok(r) == [buf |-> r.buf, off |-> r.off, err |-> ""]
Throw(builder, e) == [buf |-> builder, off |-> -1, err |-> e]

createEmptyContainer(builder, type) ==
    IF type = Arr
    THEN encodeArrayNode(builder,
             [kind |-> Leaf, shift |-> 0, bitmap |-> 0, length |-> 0, values |-> <<>>],
             TRUE)
    ELSE encodeMapNode(builder, [kind |-> Leaf, bitmap |-> 0, entries |-> <<>>])

appendMapBranchNode(builder, bitmap, childOffsets) ==
    [buf |-> builder \o MapBranchBytes(bitmap, childOffsets), off |-> Len(builder)]

appendArrayBranchNode(builder, shift, bitmap, length, isRoot, childOffsets) ==
    [buf |-> builder \o ArrayNodeBytes(Branch, shift, bitmap, length, isRoot, childOffsets),
     off |-> Len(builder)]

\* children[i] = offset (1-based i)
ReplaceAt(children, i, offset) ==
    [j \in 1..Len(children) |-> IF j = i THEN offset ELSE children[j]]

\* an insertion that puts the new offset behind every other
InsertAtEnd(children, idx, offset) == Append(children, offset)

\* [...children.slice(0, idx), offset, ...children.slice(idx)]
InsertAt(children, idx, offset) ==
    SubSeq(children, 1, idx) \o <<offset>> \o SubSeq(children, idx + 1, Len(children))


\* the value a leaf installs for the addressed key or slot: the encoding of
\* value when the path ends here, else the container the rest of the path
\* is applied to -- the existing one (existing.type = containerType) or a
\* fresh empty one.  existing.offset is -1 when there is no existing value.
NextValue(builder, existing, restPath, value) ==
    IF Len(restPath) = 0
    THEN IF valueFromAnyErr(value, <<>>, 1) # ""
         THEN [buf |-> builder, err |-> valueFromAnyErr(value, <<>>, 1),
               value |-> [type |-> Nil, offset |-> -1]]
         ELSE [buf |-> builder, err |-> "", value |-> valueFromAny(value)]
    ELSE LET containerType == IF restPath[1].isNum THEN Arr ELSE Map
             reuse == existing.offset # -1 /\ existing.type = containerType
         IN  Bind(IF reuse THEN [buf |-> builder, off |-> existing.offset]
                  ELSE createEmptyContainer(builder, containerType),
                  LAMBDA child :
             Bind(setPathAt(child.buf, child.off, restPath, value),
                  LAMBDA updatedChild :
                 [buf |-> updatedChild.buf, err |-> updatedChild.err,
                  value |-> [type |-> containerType, offset |-> updatedChild.off]]))

NoValue == [type |-> Nil, offset |-> -1]

setPathAt(builder, offset, path, value) ==
    IF Len(path) = 0
    THEN IF valueFromAnyErr(value, <<>>, 1) # ""
         THEN Throw(builder, valueFromAnyErr(value, <<>>, 1))
         ELSE Ok(encodeValueNode(builder, valueFromAny(value)))
    ELSE LET type == readValueTypeAt(builder, offset)
         IN  IF type = Map
             THEN IF path[1].isNum THEN Throw(builder, "path")
                  ELSE setMapPath(builder, offset, path[1].str, xxh32(path[1].str),
                                  Tail(path), value, 0)
             ELSE IF type = Arr
             THEN IF ~path[1].isNum \/ path[1].num < 0 THEN Throw(builder, "path")
                  ELSE setArrayPath(builder, offset, path[1].num, Tail(path), value)
             ELSE Throw(builder, "path")

setMapPath(builder, offset, keyBytes, hash, restPath, value, depth) ==
    LET tronBytes == builder
        header == readNodeHeader(tronBytes, offset)
        payloadStart == offset + header.headerSize
    IN  IF depth > maxDepth32 THEN Throw(builder, "depth")
        ELSE IF header.type # Map THEN Throw(builder, "type")
        ELSE IF header.isLeaf
        THEN LET payloadLen == header.nodeLen - header.headerSize
                 entryCount == payloadLen \div 8
                 entries == [i \in 1..entryCount |->
                     LET keyOffset == readUint32LE(tronBytes, payloadStart + (i - 1) * 8)
                         valueOffset == readUint32LE(tronBytes, payloadStart + (i - 1) * 8 + 4)
                     IN  Bind(readTxtBytesAt(tronBytes, keyOffset),
                              LAMBDA existingKeyBytes :
                             [key |-> existingKeyBytes,
                              value |-> [type |-> readValueTypeAt(tronBytes, valueOffset),
                                         offset |-> valueOffset],
                              hash |-> xxh32(existingKeyBytes)])]
                 found == {i \in 1..entryCount : bytesEqual(entries[i].key, keyBytes)}
                 foundIndex == IF found = {} THEN -1
                               ELSE CHOOSE i \in found : \A j \in found : j <= i
             IN  IF payloadLen % 8 # 0 THEN Throw(builder, "len")
                 ELSE Bind(NextValue(builder,
                               IF foundIndex >= 0 THEN entries[foundIndex].value
                               ELSE NoValue,
                               restPath, value),
                           LAMBDA next :
                     IF next.err # "" THEN Throw(builder, next.err)
                     ELSE Ok(encodeMapNode(next.buf, buildMapNode(
                              IF foundIndex >= 0
                              THEN ReplaceAt(entries, foundIndex,
                                       [key |-> entries[foundIndex].key,
                                        value |-> next.value,
                                        hash |-> entries[foundIndex].hash])
                              ELSE Append(entries, [key |-> keyBytes, value |-> next.value,
                                                    hash |-> hash]),
                              depth))))
        ELSE LET bitmap == readUint32LE(tronBytes, payloadStart)
                 slot == MapSlot(hash, depth)
                 mask == (2 ^ slot) - 1
                 idx == popcount16(BitAnd(bitmap, mask))
                 hasChild == SlotBit(bitmap, slot) = 1
                 children == ReadOffsets(tronBytes, payloadStart + 4,
                                         Len(ActiveSlots(bitmap)))
             IN  IF hasChild
                 THEN Bind(setMapPath(builder, children[idx + 1], keyBytes, hash,
                                      restPath, value, depth + 1),
                           LAMBDA newChild :
                          IF newChild.err # "" THEN newChild
                          ELSE Ok(appendMapBranchNode(newChild.buf, bitmap,
                                      ReplaceAt(children, idx + 1, newChild.off))))
                 ELSE Bind(NextValue(builder, NoValue, restPath, value),
                           LAMBDA next :
                          IF next.err # "" THEN Throw(builder, next.err)
                          ELSE Bind(encodeMapNode(next.buf, buildMapNode(
                                        <<[key |-> keyBytes, value |-> next.value,
                                           hash |-> hash]>>,
                                        depth + 1)),
                                    LAMBDA newChild :
                                   Ok(appendMapBranchNode(newChild.buf,
                                          BitOr(bitmap, 2 ^ slot),
                                          InsertAt(children, idx, newChild.off)))))

setArrayPath(builder, offset, index, restPath, value) ==
    LET tronBytes == builder
        header == readNodeHeader(tronBytes, offset)
        payloadStart == offset + header.headerSize
        shift == tronBytes[payloadStart + 1]
        bitmap == readUint16LE(tronBytes, payloadStart + 1)
        length == IF header.isRoot THEN readUint32LE(tronBytes, payloadStart + 3) ELSE 0
        nextLength == IF header.isRoot
                      THEN (IF length > index + 1 THEN length ELSE index + 1)
                      ELSE 0
        addressesStart == payloadStart + 3 + (IF header.isRoot THEN 4 ELSE 0)
        offsets == ReadOffsets(tronBytes, addressesStart, Len(ActiveSlots(bitmap)))
    IN  IF header.type # Arr THEN Throw(builder, "type")
        ELSE IF header.isLeaf
        THEN LET slot == BitAnd(index, 15)
                 rankOf(s) == popcount16(BitAnd(bitmap, (2 ^ s) - 1))
                 slotValue(s) ==
                     [type |-> readValueTypeAt(tronBytes, offsets[rankOf(s) + 1]),
                      offset |-> offsets[rankOf(s) + 1]]
                 newBitmap == BitOr(bitmap, 2 ^ slot)
             IN  Bind(NextValue(builder,
                          IF SlotBit(bitmap, slot) = 1 THEN slotValue(slot) ELSE NoValue,
                          restPath, value),
                      LAMBDA next :
                 IF next.err # "" THEN Throw(builder, next.err)
                 ELSE Ok(encodeArrayNode(next.buf,
                             [kind |-> Leaf, shift |-> shift, bitmap |-> newBitmap,
                              length |-> nextLength,
                              values |-> Bind(ActiveSlots(newBitmap), LAMBDA newActive :
                                  [i \in 1..Len(newActive) |->
                                      IF newActive[i] = slot THEN next.value
                                      ELSE slotValue(newActive[i])])],
                             header.isRoot)))
        ELSE LET slot == BitAnd(Shr(index, shift), 15)
                 mask == (2 ^ slot) - 1
                 idx == popcount16(BitAnd(bitmap, mask))
                 hasChild == SlotBit(bitmap, slot) = 1
             IN  IF hasChild
                 THEN Bind(setArrayPath(builder, offsets[idx + 1], index, restPath, value),
                           LAMBDA newChild :
                          IF newChild.err # "" THEN newChild
                          ELSE Ok(appendArrayBranchNode(newChild.buf, shift, bitmap,
                                      nextLength, header.isRoot,
                                      ReplaceAt(offsets, idx + 1, newChild.off))))
                 ELSE Bind(NextValue(builder, NoValue, restPath, value),
                           LAMBDA next :
                          IF next.err # "" THEN Throw(builder, next.err)
                          ELSE Bind(encodeArrayNode(next.buf,
                                        buildArrayNode(<<[index |-> index,
                                                          value |-> next.value]>>,
                                                       shift - 4, 0),
                                        FALSE),
                                    LAMBDA newChild :
                                   Ok(appendArrayBranchNode(newChild.buf, shift,
                                          BitOr(bitmap, 2 ^ slot), nextLength,
                                          header.isRoot,
                                          InsertAt(offsets, idx, newChild.off)))))

\* the new root of setPath: the encoded value for the empty path, else the
\* root rebuilt along the path
newRootOf(builder, path, value) ==
    IF Len(path) = 0
    THEN IF valueFromAnyErr(value, <<>>, 1) # ""
         THEN Throw(builder, valueFromAnyErr(value, <<>>, 1))
         ELSE Ok(encodeValueNode(builder, valueFromAny(value)))
    ELSE setPathAt(builder, readRootOffset(builder), path, value)

\* setPath that records the end of the nodes as the root offset
setPathRootAtEnd(tronBytes, path, value) ==
    IF readRootOffsetErr(tronBytes) # "" THEN Throw(tronBytes, readRootOffsetErr(tronBytes))
    ELSE Bind(newRootOf(tronBytes, path, value), LAMBDA newRoot :
             IF newRoot.err # "" THEN newRoot
             ELSE [buf |-> newRoot.buf \o writeUint32LE(Len(newRoot.buf))
                               \o writeUint32LE(readRootOffset(tronBytes)),
                   off |-> newRoot.off, err |-> ""])

\* setPath with a footer whose prevRootOffset names the new root
setPathPrevIsNewRoot(tronBytes, path, value) ==
    IF readRootOffsetErr(tronBytes) # "" THEN Throw(tronBytes, readRootOffsetErr(tronBytes))
    ELSE Bind(newRootOf(tronBytes, path, value), LAMBDA newRoot :
             IF newRoot.err # "" THEN newRoot
             ELSE [buf |-> newRoot.buf \o writeUint32LE(newRoot.off)
                               \o writeUint32LE(newRoot.off),
                   off |-> newRoot.off, err |-> ""])

\* setPath with a footer that carries the input's prevRootOffset over
setPathKeepsPrev(tronBytes, path, value) ==
    IF readRootOffsetErr(tronBytes) # "" THEN Throw(tronBytes, readRootOffsetErr(tronBytes))
    ELSE Bind(newRootOf(tronBytes, path, value), LAMBDA newRoot :
             IF newRoot.err # "" THEN newRoot
             ELSE [buf |-> newRoot.buf \o writeUint32LE(newRoot.off)
                               \o writeUint32LE(readPrevRootOffset(tronBytes)),
                   off |-> newRoot.off, err |-> ""])

\* the builder starts as tronBytes.slice(): the whole input, its footer included
setPath(tronBytes, path, value) ==
    IF readRootOffsetErr(tronBytes) # "" THEN Throw(tronBytes, readRootOffsetErr(tronBytes))
    ELSE Bind(newRootOf(tronBytes, path, value), LAMBDA newRoot :
             IF newRoot.err # "" THEN newRoot
             ELSE [buf |-> newRoot.buf \o writeUint32LE(newRoot.off)
                               \o writeUint32LE(readRootOffset(tronBytes)),
                   off |-> newRoot.off, err |-> ""])

(***************************************************************************)
(* Vacuum: copyNode threads the builder and the memo of copied offsets     *)
(***************************************************************************)
RECURSIVE copyNode(_, _, _, _), copyFields(_, _, _, _, _, _)

\* byte positions of the offset fields of the node at offset, in copy order
OffsetFields(tronBytes, offset) ==
    LET header == readNodeHeader(tronBytes, offset)
        payloadStart == offset + header.headerSize
    IN  IF header.type = Arr
        THEN LET bitmap == readUint16LE(tronBytes, payloadStart + 1)
                 addressesStart == payloadStart + 3 + (IF header.isRoot THEN 4 ELSE 0)
             IN  [i \in 1..popcount16(bitmap) |-> addressesStart + (i - 1) * 4]
        ELSE IF header.isLeaf
        THEN [i \in 1..((header.nodeLen - header.headerSize) \div 8) * 2 |->
                 payloadStart + (i - 1) * 4]
        ELSE LET bitmap == readUint32LE(tronBytes, payloadStart)
             IN  [i \in 1..popcount16(bitmap) |-> payloadStart + 4 + (i - 1) * 4]

\* copies the nodes fields[lo..hi] point to, in order; patches are [pos, value]
\* records; the first half of the range is copied before the second
copyFields(tronBytes, builder, memo, fields, lo, hi) ==
    IF lo > hi THEN [buf |-> builder, memo |-> memo, patches |-> <<>>]
    ELSE IF lo = hi
    THEN Bind(copyNode(tronBytes, builder, memo, readUint32LE(tronBytes, fields[lo])),
              LAMBDA c :
             [buf |-> c.buf, memo |-> c.memo,
              patches |-> <<[pos |-> fields[lo], value |-> c.off]>>])
    ELSE Bind(copyFields(tronBytes, builder, memo, fields, lo, (lo + hi) \div 2),
              LAMBDA first :
             IF Len(first.patches) > 0
             THEN Bind(copyFields(tronBytes, first.buf, first.memo, fields,
                                  (lo + hi) \div 2 + 1, hi),
                       LAMBDA rest :
                      [buf |-> rest.buf, memo |-> rest.memo,
                       patches |-> first.patches \o rest.patches])
             ELSE first)

\* the length copyNode finds for the node at offset
nodeLenAt(tronBytes, offset) ==
    LET type == BitAnd(tronBytes[offset + 1], 7)
    IN  IF type = Arr \/ type = Map THEN readNodeHeader(tronBytes, offset).nodeLen
        ELSE IF type = Nil \/ type = Bit THEN 1
        ELSE IF type = I64 \/ type = F64 THEN 9
        ELSE LET bl == readBytesLength(tronBytes, offset)
             IN  bl.headerSize + bl.length

\* byte at of the source node, with the patched offset fields written over it
patched(tronBytes, patches, at) ==
    LET hit == {j \in 1..Len(patches) :
                   patches[j].pos <= at /\ at < patches[j].pos + 4}
    IN  IF hit = {} THEN tronBytes[at + 1]
        ELSE LET j == CHOOSE j \in hit : \A k \in hit : k <= j
             IN  writeUint32LE(patches[j].value)[at - patches[j].pos + 1]

copyNode(tronBytes, builder, memo, offset) ==
    IF offset \in DOMAIN memo
    THEN [buf |-> builder, memo |-> memo, off |-> memo[offset]]
    ELSE Bind(IF BitAnd(tronBytes[offset + 1], 7) \in {Arr, Map}
              THEN LET fields == OffsetFields(tronBytes, offset)
                   IN  copyFields(tronBytes, builder, memo, fields, 1, Len(fields))
              ELSE [buf |-> builder, memo |-> memo, patches |-> <<>>],
              LAMBDA r :
             [buf |-> r.buf \o [i \in 1..nodeLenAt(tronBytes, offset) |->
                                   patched(tronBytes, r.patches, offset + i - 1)],
              memo |-> (offset :> Len(r.buf)) @@ r.memo,
              off |-> Len(r.buf)])

NoMemo == [o \in {} |-> 0]

\* vacuum with a footer that keeps the input's root as prevRootOffset
vacuumKeepsPrev(tronBytes) ==
    LET r == copyNode(tronBytes, MAGIC, NoMemo, readRootOffset(tronBytes))
    IN  r.buf \o writeUint32LE(r.off) \o writeUint32LE(readRootOffset(tronBytes))

\* vacuum whose builder starts as a copy of the input instead of the header
vacuumOntoInput(tronBytes) ==
    Bind(copyNode(tronBytes, tronBytes, NoMemo, readRootOffset(tronBytes)), LAMBDA r :
        r.buf \o writeUint32LE(r.off) \o writeUint32LE(0))

\* vacuum that starts its output with the input's footer behind the header
vacuumKeepsFooter(tronBytes) ==
    Bind(copyNode(tronBytes,
                  MAGIC \o SubSeq(tronBytes, Len(tronBytes) - FOOTER_SIZE + 1, Len(tronBytes)),
                  NoMemo, readRootOffset(tronBytes)), LAMBDA r :
        r.buf \o writeUint32LE(r.off) \o writeUint32LE(0))

vacuum(tronBytes) ==
    Bind(copyNode(tronBytes, MAGIC, NoMemo, readRootOffset(tronBytes)), LAMBDA r :
        r.buf \o writeUint32LE(r.off) \o writeUint32LE(0))

\* canonical that appends the re-encoded value to the input as a new root
canonicalKeepsHistory(tronBytes) == setPath(tronBytes, <<>>, decode(tronBytes)).buf

\* const value = decodeValueAt(rootOffset); return encode(value)
canonical(tronBytes) == encode(decode(tronBytes))

(***************************************************************************)
(* Lazy view: path lookups on a buffer (tron.ts); -1 stands for undefined  *)
(***************************************************************************)
RECURSIVE lookupArrayValueOffsetAt(_, _, _), lookupMapValueOffsetAt(_, _, _, _, _),
          collectMapKeys(_, _), collectMapKeysChildren(_, _, _, _)

lookupArrayValueOffsetAt(tronBytes, offset, index) ==
    LET header == readNodeHeader(tronBytes, offset)
        payloadStart == offset + header.headerSize
        shift == tronBytes[payloadStart + 1]
        bitmap == readUint16LE(tronBytes, payloadStart + 1)
        addressesStart == payloadStart + 3 + (IF header.isRoot THEN 4 ELSE 0)
        slot == IF header.isLeaf THEN BitAnd(index, 15)
                ELSE BitAnd(Shr(index, shift), 15)
        rank == popcount16(BitAnd(bitmap, (2 ^ slot) - 1))
    IN  IF SlotBit(bitmap, slot) = 0 THEN -1
        ELSE IF header.isLeaf THEN readUint32LE(tronBytes, addressesStart + rank * 4)
        ELSE lookupArrayValueOffsetAt(tronBytes,
                 readUint32LE(tronBytes, addressesStart + rank * 4), index)

\* a lookup that follows the first child of every branch, whatever the rank
lookupMapValueOffsetAtFirst(tronBytes, offset, keyBytes, hash, depth) ==
    LET header == readNodeHeader(tronBytes, offset)
        payloadStart == offset + header.headerSize
    IN  IF header.isLeaf
        THEN LET entryCount == (header.nodeLen - header.headerSize) \div 8
                 keyAt(i) == readTxtBytesAt(tronBytes,
                                 readUint32LE(tronBytes, payloadStart + (i - 1) * 8))
                 found == {i \in 1..entryCount : bytesEqual(keyAt(i), keyBytes)}
             IN  IF found = {} THEN -1
                 ELSE LET i == CHOOSE i \in found : \A j \in found : i <= j
                      IN  readUint32LE(tronBytes, payloadStart + (i - 1) * 8 + 4)
        ELSE IF SlotBit(readUint32LE(tronBytes, payloadStart), MapSlot(hash, depth)) = 0
        THEN -1
        ELSE lookupMapValueOffsetAt(tronBytes, readUint32LE(tronBytes, payloadStart + 4),
                                    keyBytes, hash, depth + 1)

lookupMapValueOffsetAt(tronBytes, offset, keyBytes, hash, depth) ==
    LET header == readNodeHeader(tronBytes, offset)
        payloadStart == offset + header.headerSize
    IN  IF header.isLeaf
        THEN LET entryCount == (header.nodeLen - header.headerSize) \div 8
                 keyAt(i) == readTxtBytesAt(tronBytes,
                                 readUint32LE(tronBytes, payloadStart + (i - 1) * 8))
                 found == {i \in 1..entryCount : bytesEqual(keyAt(i), keyBytes)}
             IN  IF found = {} THEN -1
                 ELSE LET i == CHOOSE i \in found : \A j \in found : i <= j
                      IN  readUint32LE(tronBytes, payloadStart + (i - 1) * 8 + 4)
        ELSE LET bitmap == readUint32LE(tronBytes, payloadStart)
                 slot == MapSlot(hash, depth)
                 rank == popcount16(BitAnd(bitmap, (2 ^ slot) - 1))
             IN  IF SlotBit(bitmap, slot) = 0 THEN -1
                 ELSE lookupMapValueOffsetAt(tronBytes,
                          readUint32LE(tronBytes, payloadStart + 4 + rank * 4),
                          keyBytes, hash, depth + 1)

collectMapKeys(tronBytes, offset) ==
    LET header == readNodeHeader(tronBytes, offset)
        payloadStart == offset + header.headerSize
    IN  IF header.isLeaf
        THEN [i \in 1..((header.nodeLen - header.headerSize) \div 8) |->
                 readTxtBytesAt(tronBytes,
                     readUint32LE(tronBytes, payloadStart + (i - 1) * 8))]
        ELSE collectMapKeysChildren(tronBytes, payloadStart + 4,
                 Len(ActiveSlots(readUint32LE(tronBytes, payloadStart))), 1)

collectMapKeysChildren(tronBytes, p, count, i) ==
    IF i > count THEN <<>>
    ELSE collectMapKeys(tronBytes, readUint32LE(tronBytes, p + 4 * (i - 1)))
         \o collectMapKeysChildren(tronBytes, p, count, i + 1)

\* the length field of the root array node at offset (getArrayLength)
arrayLengthAt(tronBytes, offset) ==
    readUint32LE(tronBytes, offset + readNodeHeader(tronBytes, offset).headerSize + 3)

\* the value a freshly opened view shows at offset when every index below
\* length and every own key is read: an absent index reads as undefined,
\* which compares and serialises as null
viewValueAt(tronBytes, offset) ==
    LET type == readValueTypeAt(tronBytes, offset)
    IN  IF type = Arr
        THEN [t |-> "arr",
              a |-> [i \in 1..arrayLengthAt(tronBytes, offset) |->
                        LET valueOffset == lookupArrayValueOffsetAt(tronBytes, offset, i - 1)
                        IN  IF valueOffset = -1 THEN [t |-> "nil"]
                            ELSE viewValueAt(tronBytes, valueOffset)]]
        ELSE IF type = Map
        THEN LET keys == collectMapKeys(tronBytes, offset)
                 valueOffset(i) == lookupMapValueOffsetAt(tronBytes, offset, keys[i],
                                                          xxh32(keys[i]), 0)
                 present == SelectSeq([i \in 1..Len(keys) |-> i],
                                      LAMBDA i : valueOffset(i) # -1)
             IN  [t |-> "map",
                  m |-> [j \in 1..Len(present) |->
                            [k |-> keys[present[j]],
                             v |-> viewValueAt(tronBytes, valueOffset(present[j]))]]]
        ELSE decodeValueAt(tronBytes, offset)

\* what tron(tronBytes) shows when read in full
viewValue(tronBytes) == viewValueAt(tronBytes, readRootOffset(tronBytes))

(***************************************************************************)
(* Logical values: what the claims compare                                 *)
(***************************************************************************)
RECURSIVE Norm(_), Install(_, _, _), Compatible(_, _), WrongKind(_, _)

VNil == [t |-> "nil"]
VBit(b) == [t |-> "bit", b |-> b]
VInt(n) == [t |-> "i64", n |-> n]
VTxt(s) == [t |-> "txt", s |-> s]
VBin(s) == [t |-> "bin", s |-> s]
VArr(a) == [t |-> "arr", a |-> a]
VMap(m) == [t |-> "map", m |-> m]
Entry(k, v) == [k |-> k, v |-> v]

\* the logical value of a host value: a map is the set of its (key, value)
\* pairs, whatever the order its keys are listed in
Norm(value) ==
    IF value.t = "arr"
    THEN [t |-> "arr", a |-> [i \in 1..Len(value.a) |-> Norm(value.a[i])]]
    ELSE IF value.t = "map"
    THEN [t |-> "map",
          m |-> {<<value.m[i].k, Norm(value.m[i].v)>> : i \in 1..Len(value.m)}]
    ELSE value

IsContainer(value) == value.t \in {"arr", "map"}

\* the entry of key k in a map value, <<>> when absent
EntriesOf(value, k) == SelectSeq(value.m, LAMBDA e : e.k = k)

\* value with v installed at path: a missing container on the way is
\* created empty, of the kind the next segment asks for; an array written
\* at or beyond its length grows to index + 1, the gap reading as nil
Install(value, path, v) ==
    IF Len(path) = 0 THEN v
    ELSE LET seg == path[1]
             base == IF seg.isNum
                     THEN (IF value.t = "arr" THEN value ELSE VArr(<<>>))
                     ELSE (IF value.t = "map" THEN value ELSE VMap(<<>>))
         IN  IF seg.isNum
             THEN LET n == IF Len(base.a) > seg.num + 1 THEN Len(base.a) ELSE seg.num + 1
                      old == IF seg.num < Len(base.a) THEN base.a[seg.num + 1] ELSE VNil
                  IN  VArr([i \in 1..n |->
                          IF i = seg.num + 1 THEN Install(old, Tail(path), v)
                          ELSE IF i <= Len(base.a) THEN base.a[i] ELSE VNil])
             ELSE LET hit == EntriesOf(base, seg.str)
                      old == IF Len(hit) > 0 THEN hit[1].v ELSE VNil
                      new == Entry(seg.str, Install(old, Tail(path), v))
                  IN  VMap(IF Len(hit) > 0
                           THEN [i \in 1..Len(base.m) |->
                                    IF base.m[i].k = seg.str THEN new ELSE base.m[i]]
                           ELSE Append(base.m, new))

\* the value found one segment down, VNil when there is none
Child(value, seg) ==
    IF seg.isNum
    THEN (IF value.t = "arr" /\ seg.num < Len(value.a) THEN value.a[seg.num + 1] ELSE VNil)
    ELSE (IF value.t = "map" /\ Len(EntriesOf(value, seg.str)) > 0
          THEN EntriesOf(value, seg.str)[1].v ELSE VNil)

\* some segment of path meets an existing container of the other kind
WrongKind(value, path) ==
    IF Len(path) = 0 THEN FALSE
    ELSE \/ value.t = "map" /\ path[1].isNum
         \/ value.t = "arr" /\ ~path[1].isNum
         \/ WrongKind(Child(value, path[1]), Tail(path))

\* path is compatible with value: no segment meets a container of the other
\* kind, and a non-empty path starts at a container
Compatible(value, path) ==
    /\ ~WrongKind(value, path)
    /\ Len(path) > 0 => IsContainer(value)

(***************************************************************************)
(* Codec level: encode, then setPath, vacuum and canonical on the result   *)
(***************************************************************************)
MaxOps == 2

txtHi == <<104, 105>>
txtOk == <<111, 107>>

InitValues ==
    { VInt(42),
      VMap(<<>>),
      VArr(<<>>),
      VArr(<<VInt(1), VInt(2)>>),
      VMap(<<Entry(keyA, VArr(<<VInt(1), VInt(2)>>)),
             Entry(keyD, VMap(<<Entry(keyF, VTxt(txtHi))>>))>>),
      VArr([i \in 1..17 |-> IF i = 1 THEN VMap(<<>>) ELSE VNil]) }

Writes ==
    { [path |-> <<>>, value |-> VTxt(txtOk)],
      [path |-> <<>>, value |-> VArr(<<VBit(TRUE)>>)],
      [path |-> <<KeySeg(keyA)>>, value |-> VInt(-7)],
      [path |-> <<KeySeg(keyM)>>, value |-> VMap(<<Entry(keyO, VNil)>>)],
      [path |-> <<KeySeg(keyF)>>, value |-> VBit(TRUE)],
      [path |-> <<KeySeg(keyA), IdxSeg(1)>>, value |-> VInt(9)],
      [path |-> <<KeySeg(keyA), IdxSeg(2)>>, value |-> VBin(<<1, 2, 3>>)],
      [path |-> <<KeySeg(keyD), KeySeg(keyI)>>, value |-> VTxt(txtOk)],
      [path |-> <<KeySeg(keyA), KeySeg(keyF)>>, value |-> VInt(9)],
      [path |-> <<KeySeg(keyD), IdxSeg(0)>>, value |-> VInt(9)],
      [path |-> <<IdxSeg(0)>>, value |-> VInt(5)],
      [path |-> <<IdxSeg(2)>>, value |-> VInt(3)],
      [path |-> <<IdxSeg(16)>>, value |-> VTxt(txtOk)],
      [path |-> <<IdxSeg(0), KeySeg(keyA)>>, value |-> VBit(FALSE)],
      [path |-> <<IdxSeg(1), IdxSeg(0)>>, value |-> VInt(9)] }

NoAccess == [view |-> 0, kind |-> "none", handle |-> [kind |-> "none", path |-> <<>>],
             seg |-> IdxSeg(0), result |-> VNil]

NoSolo == [heap |-> <<>>, root |-> <<>>, result |-> VNil]

Init ==
    /\ \E v \in InitValues :
          /\ buf = encode(v)
          /\ op = [name |-> "encode", path |-> <<>>, value |-> v]
    /\ inBuf = <<>>
    /\ err = ""
    /\ nops = 0
    /\ heap = <<>>
    /\ views = <<>>
    /\ last = NoAccess
    /\ solo = NoSolo

SetPath(w) ==
    /\ nops < MaxOps
    /\ Bind(setPath(buf, w.path, w.value), LAMBDA r :
           /\ buf' = IF r.err = "" THEN r.buf ELSE buf
           /\ err' = r.err)
    /\ inBuf' = buf
    /\ op' = [name |-> "setPath", path |-> w.path, value |-> w.value]
    /\ nops' = nops + 1
    /\ UNCHANGED viewVars

Vacuum ==
    /\ nops < MaxOps
    /\ buf' = vacuum(buf)
    /\ inBuf' = buf
    /\ err' = ""
    /\ op' = [name |-> "vacuum", path |-> <<>>, value |-> VNil]
    /\ nops' = nops + 1
    /\ UNCHANGED viewVars

Canonical ==
    /\ nops < MaxOps
    /\ buf' = canonical(buf)
    /\ inBuf' = buf
    /\ err' = ""
    /\ op' = [name |-> "canonical", path |-> <<>>, value |-> VNil]
    /\ nops' = nops + 1
    /\ UNCHANGED viewVars

Next ==
    \/ \E w \in Writes : SetPath(w)
    \/ Vacuum
    \/ Canonical

Spec == Init /\ [][Next]_vars

(***************************************************************************)
(* Properties of the codec level                                           *)
(***************************************************************************)
SetPathDone == op.name = "setPath" /\ err = ""

\* shift and length fields of the array node at offset
arrayShiftAt(tronBytes, offset) ==
    tronBytes[offset + readNodeHeader(tronBytes, offset).headerSize + 1]

\* what a freshly opened view returns for index of the root array at offset
\* (getArrayValue): undefined, shown as nil, at or beyond length
viewArrayElem(tronBytes, offset, index) ==
    LET valueOffset == lookupArrayValueOffsetAt(tronBytes, offset, index)
    IN  IF index >= arrayLengthAt(tronBytes, offset) \/ valueOffset = -1 THEN VNil
        ELSE viewValueAt(tronBytes, valueOffset)

RootIsArr(tronBytes) == readValueTypeAt(tronBytes, readRootOffset(tronBytes)) = Arr

\* the last operation wrote index i of the root array, whose root node had
\* a shift s with (i >> s) > 0xF
RootOverflowWrite ==
    /\ SetPathDone
    /\ Len(op.path) = 1
    /\ op.path[1].isNum
    /\ RootIsArr(inBuf)
    /\ Shr(op.path[1].num, arrayShiftAt(inBuf, readRootOffset(inBuf))) > 15

\* C1: after a successful setPath(buf, p, v) with p compatible with the
\* containers of decode(buf), decode of the result is decode(buf) with v
\* installed at p -- for every array index, beyond the length and >= 16 too
C1_SetPathInstallsValue ==
    (SetPathDone /\ Compatible(decode(inBuf), op.path))
        => Norm(decode(buf)) = Norm(Install(decode(inBuf), op.path, op.value))

\* C4: writing index i of a root array with (i >> shift) > 0xF yields a root
\* of larger shift (in steps of 4); every index below the old length reads
\* its old value and index i reads the written value
C4_RootShiftGrows ==
    RootOverflowWrite =>
        LET old == readRootOffset(inBuf)
            new == readRootOffset(buf)
        IN  /\ arrayShiftAt(buf, new) > arrayShiftAt(inBuf, old)
            /\ (arrayShiftAt(buf, new) - arrayShiftAt(inBuf, old)) % 4 = 0
            /\ \A j \in 0..(arrayLengthAt(inBuf, old) - 1) :
                  viewArrayElem(buf, new, j) = viewArrayElem(inBuf, old, j)
            /\ Norm(viewArrayElem(buf, new, op.path[1].num)) = Norm(op.value)

\* C5: for a buffer made by encode and setPath calls, canonical(buf) is
\* byte-identical to encode of the value the lazy view shows, the full
\* decoder and the view agree, and the result has prevRootOffset 0
C5_CanonicalMatchesView ==
    /\ canonical(buf) = encode(viewValue(buf))
    /\ Norm(decode(buf)) = Norm(viewValue(buf))
    /\ readPrevRootOffset(canonical(buf)) = 0

\* C6: vacuum(buf) and buf decode to equal logical values (by the full
\* decoder and through the view) and vacuum(buf) has prevRootOffset 0
C6_VacuumPreservesValue ==
    op.name = "vacuum" =>
        /\ Norm(decode(buf)) = Norm(decode(inBuf))
        /\ Norm(viewValue(buf)) = Norm(viewValue(inBuf))
        /\ readPrevRootOffset(buf) = 0

\* a vacuum of a buffer that carried history and a tree root
C6_Witness ==
    /\ op.name = "vacuum"
    /\ readPrevRootOffset(inBuf) # 0
    /\ IsContainer(decode(buf))
    /\ Len(buf) < Len(inBuf)

\* C7: after buf2 = setPath(buf, p, v) the node at buf2's prevRootOffset
\* decodes, within buf2, to exactly decode(buf) (the view reads it the same
\* way), and the bytes of buf are all still there
C7_EarlierVersionIntact ==
    SetPathDone =>
        LET prev == readPrevRootOffset(buf)
        IN  /\ decodeValueAt(buf, prev) = decode(inBuf)
            /\ viewValueAt(buf, prev) = viewValue(inBuf)
            /\ SubSeq(buf, 1, Len(inBuf)) = inBuf

\* a second update that changed the value of a tree
C7_Witness ==
    /\ SetPathDone
    /\ nops = 2
    /\ IsContainer(decode(inBuf))
    /\ Norm(decode(buf)) # Norm(decode(inBuf))

\* C8: after a successful setPath, for every path (the empty one too), the
\* footer's prevRootOffset is the rootOffset of the input and rootOffset
\* points at the root appended by this call, the last node before the footer
C8_FooterLinksRoots ==
    SetPathDone =>
        /\ readPrevRootOffset(buf) = readRootOffset(inBuf)
        /\ readRootOffset(buf) >= Len(inBuf)
        /\ readRootOffset(buf) + nodeLenAt(buf, readRootOffset(buf))
              = Len(buf) - FOOTER_SIZE

\* an empty-path update of a buffer that already had history
C8_Witness ==
    /\ SetPathDone
    /\ Len(op.path) = 0
    /\ readPrevRootOffset(inBuf) # 0

\* C10: setPath fails with `path` whenever a segment is of the wrong kind
\* for the container that exists at its level, at every depth
C10_WrongKindFails ==
    (op.name = "setPath" /\ WrongKind(decode(inBuf), op.path)) => err = "path"

(***************************************************************************)
(* Encode level: a host value is encoded, then read back by the full       *)
(* decoder and through a view                                              *)
(***************************************************************************)
SmallLen == 18
BigLen == 257
BytesLen == 17

AllKeys == <<keyA, keyD, keyF, keyI, keyM, keyO, keyTqt, keyDluw>>

\* n bytes, none of them zero
BytesOf(n) == [i \in 1..n |-> 1 + (i % 200)]

Scalars ==
    {VNil, VBit(TRUE), VBit(FALSE)}
    \cup {VInt(n) : n \in {0, 1, -1, 42, 255, 256, -256, 65536, 2147483647, -2147483647}}
    \cup {VTxt(BytesOf(n)) : n \in (0..2) \cup ((BytesLen - 2)..BytesLen) \cup {255, 256}}
    \cup {VBin(BytesOf(n)) : n \in (0..2) \cup ((BytesLen - 2)..BytesLen) \cup {255, 256}}

\* the array [0, 1, ..., n-1]
Iota(n) == VArr([i \in 1..n |-> VInt(i - 1)])

\* the map of the keys picked by sel, in the order of AllKeys; a key's value
\* is its position, a nested array for the fifth
MapOf(sel) ==
    VMap(SelectSeq([i \in 1..Len(AllKeys) |->
                       Entry(AllKeys[i], IF i = 5 THEN Iota(i) ELSE VInt(i))],
                   LAMBDA e : \E i \in sel : AllKeys[i] = e.k))

EncodeValues ==
    Scalars
    \cup {Iota(n) : n \in (0..SmallLen) \cup ((BigLen - 2)..BigLen)}
    \cup {MapOf(sel) : sel \in SUBSET (1..Len(AllKeys))}
    \cup {VArr(<<VArr(<<>>), VMap(<<>>), Iota(SmallLen), MapOf({1, 7, 8})>>),
          VMap(<<Entry(keyA, MapOf({2, 5})), Entry(keyD, VArr(<<>>)),
                 Entry(keyTqt, VMap(<<>>)), Entry(keyDluw, VArr(<<VNil, VTxt(txtHi)>>))>>),
          VArr([i \in 1..SmallLen |-> IF i % 2 = 0 THEN VNil ELSE MapOf({(i % 8) + 1})])}

InitEncode ==
    /\ \E v \in EncodeValues : op = [name |-> "input", path |-> <<>>, value |-> v]
    /\ buf = <<>>
    /\ inBuf = <<>>
    /\ err = ""
    /\ nops = 0
    /\ heap = <<>>
    /\ views = <<>>
    /\ last = NoAccess
    /\ solo = NoSolo

Encode ==
    /\ op.name = "input"
    /\ buf' = encode(op.value)
    /\ op' = [name |-> "encode", path |-> <<>>, value |-> op.value]
    /\ UNCHANGED <<inBuf, err, nops, viewVars>>

\* the full decoder on the encoded buffer
Decode ==
    /\ op.name = "encode"
    /\ last.kind = "none"
    /\ last' = [view |-> 0, kind |-> "decode", handle |-> NoAccess.handle,
                seg |-> IdxSeg(0), result |-> decode(buf)]
    /\ UNCHANGED <<codecVars, heap, views, solo>>

\* a full read of the encoded buffer through a freshly opened view
ReadAll ==
    /\ op.name = "encode"
    /\ last.kind = "none"
    /\ last' = [view |-> 0, kind |-> "readAll", handle |-> NoAccess.handle,
                seg |-> IdxSeg(0), result |-> viewValue(buf)]
    /\ UNCHANGED <<codecVars, heap, views, solo>>

NextEncode == Encode \/ Decode \/ ReadAll

SpecEncode == InitEncode /\ [][NextEncode]_vars

RECURSIVE walkContainerOffset(_, _, _, _)

Undef == [t |-> "undef"]
Missing == [t |-> "missing"]
ProxyOf(kind, path) == [t |-> "proxy", kind |-> kind, path |-> path]
ProxyKey(kind, path) == [kind |-> kind, path |-> path]
NoCache == [s \in {} |-> Undef]

Put(f, k, v) == [x \in (DOMAIN f) \cup {k} |-> IF x = k THEN v ELSE f[x]]

\* proxy is the identity of the Proxy object the state belongs to
ProxyStateOf(proxy, kind, cacheVersion, cache, lengthCache, offsetCache) ==
    [proxy |-> proxy, kind |-> kind, cacheVersion |-> cacheVersion, cache |-> cache,
     lengthCache |-> lengthCache, offsetCache |-> offsetCache]

\* root with the state of proxy key replaced
withState(root, key, state) ==
    [tronBytes |-> root.tronBytes, version |-> root.version,
     proxyCache |-> Put(root.proxyCache, key, state)]

ensureCacheFresh(root, key) ==
    LET state == root.proxyCache[key]
    IN  IF state.cacheVersion = root.version THEN root
        ELSE withState(root, key, ProxyStateOf(state.proxy, state.kind, root.version, NoCache, -1, -1))

\* the loop of getContainerOffset over state.path, from segment i on
walkContainerOffset(tronBytes, path, i, offset) ==
    IF i > Len(path) THEN offset
    ELSE LET segment == path[i]
             type == readValueTypeAt(tronBytes, offset)
         IN  IF type # Map /\ type # Arr THEN -2
             ELSE IF type = Map /\ segment.isNum THEN -2
             ELSE IF type = Arr /\ ~segment.isNum THEN -2
             ELSE Bind(IF type = Map
                       THEN lookupMapValueOffsetAt(tronBytes, offset, segment.str,
                                                   xxh32(segment.str), 0)
                       ELSE lookupArrayValueOffsetAt(tronBytes, offset, segment.num),
                       LAMBDA valueOffset :
                      IF valueOffset = -1 THEN -2
                      ELSE IF readValueTypeAt(tronBytes, valueOffset) \notin {Arr, Map}
                      THEN -2
                      ELSE walkContainerOffset(tronBytes, path, i + 1, valueOffset))

\* what getContainerOffset computes when offsetCache is undefined
containerOffsetAt(tronBytes, kind, path) ==
    Bind(walkContainerOffset(tronBytes, path, 1, readRootOffset(tronBytes)),
         LAMBDA offset :
        IF offset = -2 THEN -2
        ELSE IF kind = "array" /\ readValueTypeAt(tronBytes, offset) # Arr THEN -2
        ELSE IF kind = "map" /\ readValueTypeAt(tronBytes, offset) # Map THEN -2
        ELSE offset)

\* state.offsetCache = offset
withOffsetCache(root, key, offset) ==
    LET state == root.proxyCache[key]
    IN  withState(root, key,
            ProxyStateOf(state.proxy, state.kind, state.cacheVersion, state.cache,
                         state.lengthCache, offset))

\* state.lengthCache = length
withLengthCache(root, key, length) ==
    LET state == root.proxyCache[key]
    IN  withState(root, key,
            ProxyStateOf(state.proxy, state.kind, state.cacheVersion, state.cache,
                         length, state.offsetCache))

getContainerOffset(tronBytes, root, key) ==
    Bind(ensureCacheFresh(root, key), LAMBDA fresh :
        IF fresh.proxyCache[key].offsetCache # -1
        THEN [root |-> fresh, offset |-> fresh.proxyCache[key].offsetCache]
        ELSE Bind(containerOffsetAt(tronBytes, key.kind, key.path), LAMBDA offset :
                 [root |-> withOffsetCache(fresh, key, offset), offset |-> offset]))

getArrayLength(tronBytes, root, key) ==
    Bind(ensureCacheFresh(root, key), LAMBDA fresh :
        IF fresh.proxyCache[key].lengthCache # -1
        THEN [root |-> fresh, length |-> fresh.proxyCache[key].lengthCache]
        ELSE Bind(getContainerOffset(tronBytes, fresh, key), LAMBDA c :
             Bind(IF c.offset = -2 THEN 0 ELSE arrayLengthAt(tronBytes, c.offset),
                  LAMBDA length :
                 [root |-> withLengthCache(c.root, key, length), length |-> length])))

\* new Proxy(target, handler): an object the root has not handed out before,
\* known by its number n and by the root version it was built at
newProxy(root) ==
    LET used == {root.proxyCache[key].proxy.n : key \in DOMAIN root.proxyCache}
    IN  [n |-> IF used = {} THEN 1 ELSE 1 + CHOOSE m \in used : \A x \in used : x <= m,
         born |-> root.version]

\* getProxyForPath that builds a proxy on every call
getProxyForPathFresh(root, kind, path, offset) ==
    withState(root, ProxyKey(kind, path),
              ProxyStateOf(newProxy(root), kind, root.version, NoCache, -1, offset))

\* offset is -1 when the caller passes none
getProxyForPath(root, kind, path, offset) ==
    IF ProxyKey(kind, path) \in DOMAIN root.proxyCache
    THEN Bind(ensureCacheFresh(root, ProxyKey(kind, path)), LAMBDA fresh :
             IF offset # -1
                /\ fresh.proxyCache[ProxyKey(kind, path)].cacheVersion = root.version
             THEN withOffsetCache(fresh, ProxyKey(kind, path), offset)
             ELSE fresh)
    ELSE withState(root, ProxyKey(kind, path),
                   ProxyStateOf(newProxy(root), kind, root.version, NoCache, -1, offset))

\* decodeValueAt of tron.ts: a container is returned as the proxy of its path
proxyValueAt(tronBytes, offset, root, pathPrefix, pathSegment) ==
    LET typ == readValueTypeAt(tronBytes, offset)
        kind == IF typ = Arr THEN "array" ELSE "map"
        nextPath == Append(pathPrefix, pathSegment)
    IN  IF typ = Arr \/ typ = Map
        THEN [root |-> getProxyForPath(root, kind, nextPath, offset),
              value |-> ProxyOf(kind, nextPath)]
        ELSE [root |-> root, value |-> decodeValueAt(tronBytes, offset)]

\* root with value (MISSING for undefined) cached under segment in proxy key
withCached(root, key, segment, value) ==
    LET state == root.proxyCache[key]
    IN  withState(root, key,
            ProxyStateOf(state.proxy, state.kind, state.cacheVersion,
                         Put(state.cache, segment, IF value = Undef THEN Missing ELSE value),
                         state.lengthCache, state.offsetCache))

\* the cache is consulted before ensureCacheFresh
getArrayValue(tronBytes, root, key, index) ==
    LET segment == IdxSeg(index)
        before == root.proxyCache[key].cache
        cached == IF segment \in DOMAIN before THEN before[segment] ELSE Undef
    IN  IF cached = Missing THEN [root |-> root, value |-> Undef]
        ELSE IF cached # Undef THEN [root |-> root, value |-> cached]
        ELSE Bind(getArrayLength(tronBytes, ensureCacheFresh(root, key), key),
                  LAMBDA len :
             Bind(IF index >= len.length THEN [root |-> len.root, value |-> Undef]
                  ELSE Bind(getContainerOffset(tronBytes, len.root, key), LAMBDA c :
                       Bind(IF c.offset = -2 THEN -1
                            ELSE lookupArrayValueOffsetAt(tronBytes, c.offset, index),
                            LAMBDA valueOffset :
                           IF valueOffset = -1 THEN [root |-> c.root, value |-> Undef]
                           ELSE proxyValueAt(tronBytes, valueOffset, c.root,
                                             key.path, segment))),
                  LAMBDA r :
                 [root |-> withCached(r.root, key, segment, r.value),
                  value |-> r.value]))

getMapValue(tronBytes, root, key, keyBytes) ==
    Bind(ensureCacheFresh(root, key), LAMBDA fresh :
        LET segment == KeySeg(keyBytes)
            cache == fresh.proxyCache[key].cache
            cached == IF segment \in DOMAIN cache THEN cache[segment] ELSE Undef
        IN  IF cached = Missing THEN [root |-> fresh, value |-> Undef]
            ELSE IF cached # Undef THEN [root |-> fresh, value |-> cached]
            ELSE Bind(getContainerOffset(tronBytes, fresh, key), LAMBDA c :
                 Bind(IF c.offset = -2 THEN -1
                      ELSE lookupMapValueOffsetAt(tronBytes, c.offset, keyBytes,
                                                  xxh32(keyBytes), 0),
                      LAMBDA valueOffset :
                 Bind(IF valueOffset = -1 THEN [root |-> c.root, value |-> Undef]
                      ELSE proxyValueAt(tronBytes, valueOffset, c.root,
                                        key.path, segment),
                      LAMBDA r :
                     [root |-> withCached(r.root, key, segment, r.value),
                      value |-> r.value]))))

\* updatePath that writes the new bytes into the object the view was opened on
updatePathInPlace(objects, root, path, value) ==
    Bind(setPath(objects[root.tronBytes], path, value), LAMBDA r :
        IF r.err # "" THEN [heap |-> objects, root |-> root, err |-> r.err]
        ELSE [heap |-> [i \in 1..Len(objects) |->
                           IF i = root.tronBytes THEN r.buf ELSE objects[i]],
              root |-> [tronBytes |-> root.tronBytes, version |-> root.version + 1,
                        proxyCache |-> root.proxyCache],
              err |-> ""])

\* updatePath that counts a write before setPath has returned
updatePathBumpsFirst(objects, root, path, value) ==
    Bind(setPath(objects[root.tronBytes], path, value), LAMBDA r :
        IF r.err # ""
        THEN [heap |-> objects,
              root |-> [tronBytes |-> root.tronBytes, version |-> root.version + 1,
                        proxyCache |-> root.proxyCache],
              err |-> r.err]
        ELSE [heap |-> Append(objects, r.buf),
              root |-> [tronBytes |-> Len(objects) + 1, version |-> root.version + 1,
                        proxyCache |-> root.proxyCache],
              err |-> ""])

\* root.tronBytes = setPath(...) names a new object; nothing happens on a throw
updatePath(objects, root, path, value) ==
    Bind(setPath(objects[root.tronBytes], path, value), LAMBDA r :
        IF r.err # "" THEN [heap |-> objects, root |-> root, err |-> r.err]
        ELSE [heap |-> Append(objects, r.buf),
              root |-> [tronBytes |-> Len(objects) + 1, version |-> root.version + 1,
                        proxyCache |-> root.proxyCache],
              err |-> ""])

\* tron(tronBytes) on a document whose root is a container: the RootState
\* with the root proxy in its proxyCache
tron(objects, ref) ==
    LET tronBytes == objects[ref]
        rootState == [tronBytes |-> ref, version |-> 0, proxyCache |-> NoCache]
        rootOffset == readRootOffset(tronBytes)
    IN  getProxyForPath(rootState,
                        IF readValueTypeAt(tronBytes, rootOffset) = Arr THEN "array" ELSE "map",
                        <<>>, rootOffset)

(***************************************************************************)
(* View level state machine: two views are opened over one encoded         *)
(* buffer. The caller holds every proxy a view has handed out, reads and   *)
(* writes through the proxies of the second view and writes through the    *)
(* root proxy of the first. solo replays the second view's operations on a *)
(* heap of its own, where the first view does not exist.                   *)
(***************************************************************************)
MaxViewOps == 3

ViewDocs ==
    { VMap(<<Entry(keyA, VArr(<<VInt(1), VInt(2)>>)),
             Entry(keyD, VMap(<<Entry(keyA, VTxt(txtHi))>>))>>),
      VArr(<<VArr(<<VInt(1)>>), VInt(3)>>) }

ViewKeys == {keyA, keyD}
ViewIndices == {0, 2}
ViewWrites == {VInt(9), VArr(<<VTxt(txtOk)>>)}
FirstWrites == {VMap(<<Entry(keyD, VInt(7))>>)}

SegsOf(key) ==
    IF key.kind = "array" THEN {IdxSeg(i) : i \in ViewIndices}
    ELSE {KeySeg(k) : k \in ViewKeys}

InitView ==
    /\ \E v \in ViewDocs :
          /\ buf = encode(v)
          /\ op = [name |-> "encode", path |-> <<>>, value |-> v]
    /\ inBuf = <<>>
    /\ err = ""
    /\ nops = 0
    /\ heap = <<buf>>
    /\ views = <<tron(heap, 1), tron(heap, 1)>>
    /\ last = NoAccess
    /\ solo = [heap |-> heap, root |-> tron(heap, 1), result |-> VNil]

\* the get trap of proxy key: proxy[segment]
proxyGet(objects, root, key, segment) ==
    IF key.kind = "array"
    THEN getArrayValue(objects[root.tronBytes], root, key, segment.num)
    ELSE getMapValue(objects[root.tronBytes], root, key, segment.str)

\* the set trap of proxy key: proxy[segment] = value
proxySet(objects, root, key, segment, value) ==
    updatePath(objects, root, Append(key.path, segment), value)

SetView(f, v, root) == [i \in DOMAIN f |-> IF i = v THEN root ELSE f[i]]

\* the caller reads proxy[segment] through a proxy of the second view
Read(key, segment) ==
    /\ nops < MaxViewOps
    /\ key \in DOMAIN views[2].proxyCache
    /\ segment \in SegsOf(key)
    /\ Bind(proxyGet(heap, views[2], key, segment), LAMBDA r :
           /\ views' = SetView(views, 2, r.root)
           /\ last' = [view |-> 2, kind |-> "read", handle |-> key, seg |-> segment,
                       result |-> r.value])
    /\ Bind(proxyGet(solo.heap, solo.root, key, segment), LAMBDA s :
           solo' = [heap |-> solo.heap, root |-> s.root, result |-> s.value])
    /\ nops' = nops + 1
    /\ UNCHANGED <<buf, inBuf, op, err, heap>>

\* the caller assigns proxy[segment] = value through a proxy of the second view
Write(key, segment, value) ==
    /\ nops < MaxViewOps
    /\ key \in DOMAIN views[2].proxyCache
    /\ segment \in SegsOf(key)
    /\ Bind(proxySet(heap, views[2], key, segment, value), LAMBDA r :
           /\ heap' = r.heap
           /\ views' = SetView(views, 2, r.root)
           /\ last' = [view |-> 2, kind |-> "write", handle |-> key, seg |-> segment,
                       result |-> [t |-> "err", e |-> r.err]])
    /\ Bind(proxySet(solo.heap, solo.root, key, segment, value), LAMBDA s :
           solo' = [heap |-> s.heap, root |-> s.root,
                    result |-> [t |-> "err", e |-> s.err]])
    /\ nops' = nops + 1
    /\ UNCHANGED <<buf, inBuf, op, err>>

\* the caller assigns proxy[segment] = value through the root proxy of the
\* first view
WriteFirst(key, segment, value) ==
    /\ nops < MaxViewOps
    /\ key \in DOMAIN views[1].proxyCache
    /\ segment \in SegsOf(key)
    /\ Bind(proxySet(heap, views[1], key, segment, value), LAMBDA r :
           /\ heap' = r.heap
           /\ views' = SetView(views, 1, r.root)
           /\ last' = [view |-> 1, kind |-> "write", handle |-> key, seg |-> segment,
                       result |-> [t |-> "err", e |-> r.err]])
    /\ nops' = nops + 1
    /\ UNCHANGED <<buf, inBuf, op, err, solo>>

\* the defineProperty and deleteProperty traps of proxy key: both return
\* false and touch nothing
Refuse(key, trap) ==
    /\ nops < MaxViewOps
    /\ key \in DOMAIN views[2].proxyCache
    /\ last' = [view |-> 2, kind |-> trap, handle |-> key, seg |-> IdxSeg(0),
                result |-> VBit(FALSE)]
    /\ solo' = [heap |-> solo.heap, root |-> solo.root, result |-> VBit(FALSE)]
    /\ nops' = nops + 1
    /\ UNCHANGED <<buf, inBuf, op, err, heap, views>>

\* the set trap of an array proxy for "length": the caller assigns
\* proxy.length = nextLength, which is compared with getArrayLength and
\* never stored
SetLength(key, nextLength) ==
    /\ nops < MaxViewOps
    /\ key \in DOMAIN views[2].proxyCache
    /\ key.kind = "array"
    /\ Bind(getArrayLength(heap[views[2].tronBytes], views[2], key), LAMBDA r :
           /\ views' = SetView(views, 2, r.root)
           /\ last' = [view |-> 2, kind |-> "length", handle |-> key, seg |-> IdxSeg(0),
                       result |-> VBit(~(nextLength < r.length))])
    /\ Bind(getArrayLength(solo.heap[solo.root.tronBytes], solo.root, key), LAMBDA s :
           solo' = [heap |-> solo.heap, root |-> s.root,
                    result |-> VBit(~(nextLength < s.length))])
    /\ nops' = nops + 1
    /\ UNCHANGED <<buf, inBuf, op, err, heap>>

\* a value setPath cannot encode
BadWrites == {[t |-> "fn"]}

ViewSegs == {KeySeg(k) : k \in ViewKeys} \cup {IdxSeg(i) : i \in ViewIndices}

ProxyKeys ==
    {ProxyKey(kind, path) :
        kind \in {"array", "map"}, path \in {<<>>} \cup {<<x>> : x \in ViewSegs}}

NextView ==
    \/ \E key \in ProxyKeys, segment \in ViewSegs : Read(key, segment)
    \/ \E key \in ProxyKeys, segment \in ViewSegs, value \in ViewWrites \cup BadWrites :
          Write(key, segment, value)
    \/ \E key \in ProxyKeys, trap \in {"defineProperty", "deleteProperty"} :
          Refuse(key, trap)
    \/ \E key \in ProxyKeys, nextLength \in {0, 3} : SetLength(key, nextLength)
    \/ \E key \in ProxyKeys, segment \in ViewSegs, value \in FirstWrites :
          WriteFirst(key, segment, value)

SpecView == InitView /\ [][NextView]_vars

\* what proxy key of a view returns for segment when nothing is cached: the
\* value stored under key.path and segment in tronBytes
StoredAt(tronBytes, key, segment) ==
    LET offset == containerOffsetAt(tronBytes, key.kind, key.path)
        valueOffset ==
            IF key.kind = "array"
            THEN IF segment.num >= arrayLengthAt(tronBytes, offset) THEN -1
                 ELSE lookupArrayValueOffsetAt(tronBytes, offset, segment.num)
            ELSE lookupMapValueOffsetAt(tronBytes, offset, segment.str,
                                        xxh32(segment.str), 0)
        typ == readValueTypeAt(tronBytes, valueOffset)
    IN  IF offset = -2 \/ valueOffset = -1 THEN Undef
        ELSE IF typ = Arr THEN ProxyOf("array", Append(key.path, segment))
        ELSE IF typ = Map THEN ProxyOf("map", Append(key.path, segment))
        ELSE decodeValueAt(tronBytes, valueOffset)

\* C3: a read of a key or index through any proxy the caller holds returns
\* the value stored at that path in the view's current buffer, never a value
\* or an absent marker cached before the latest write; for map and array
\* proxies alike, and through the proxy that was just written
C3_ReadsNeverStale ==
    last.kind = "read"
        => last.result = StoredAt(heap[views[last.view].tronBytes], last.handle, last.seg)

\* C9: whatever the first view has written, the second view's buffer,
\* version, proxies and read results are those of the run without the first
\* view, and the bytes of the shared initial buffer are unchanged
C9_ViewsIndependent ==
    /\ heap[1] = buf
    /\ heap[views[2].tronBytes] = solo.heap[solo.root.tronBytes]
    /\ views[2].version = solo.root.version
    /\ views[2].proxyCache = solo.root.proxyCache
    /\ (last.view = 2 => last.result = solo.result)

\* both views have written and the second one has been read after that
C9_Witness ==
    /\ views[1].version > 0
    /\ views[2].version > 0
    /\ views[1].tronBytes # views[2].tronBytes
    /\ last.view = 2
    /\ last.kind = "read"

(***************************************************************************)
(* Storage level: heap holds the byte arrays that exist, views the ones    *)
(* the caller has been handed (as indices into heap). The caller applies   *)
(* setPath, vacuum and canonical to any array it holds. last names the     *)
(* array the operation was given and the one it returned (0 on a throw).   *)
(***************************************************************************)

\* setPath building in the array it was given
setPathStoreInPlace(objects, ref, path, value) ==
    Bind(setPath(objects[ref], path, value), LAMBDA r :
        IF r.err # "" THEN [heap |-> objects, out |-> 0, err |-> r.err]
        ELSE [heap |-> Append([i \in 1..Len(objects) |->
                                  IF i = ref THEN r.buf ELSE objects[i]], r.buf),
              out |-> Len(objects) + 1, err |-> ""])

\* builder.buf = tronBytes.slice() is a new array, and so is the returned
\* builder.buf.slice(0, builder.length); a throw leaves the builder behind
setPathStore(objects, ref, path, value) ==
    Bind(setPath(objects[ref], path, value), LAMBDA r :
        IF r.err # "" THEN [heap |-> Append(objects, r.buf), out |-> 0, err |-> r.err]
        ELSE [heap |-> Append(Append(objects, r.buf), r.buf),
              out |-> Len(objects) + 2, err |-> ""])

\* builder.buf = new Uint8Array(HEADER_SIZE), returned as a slice
vacuumStore(objects, ref) ==
    Bind(vacuum(objects[ref]), LAMBDA r :
        [heap |-> Append(Append(objects, r), r), out |-> Len(objects) + 2, err |-> ""])

\* canonical returns what encode returns: a slice of encode's builder
canonicalStore(objects, ref) ==
    Bind(canonical(objects[ref]), LAMBDA r :
        [heap |-> Append(Append(objects, r), r), out |-> Len(objects) + 2, err |-> ""])

StoreDocs ==
    { VInt(42),
      VArr(<<VInt(1), VInt(2)>>),
      VMap(<<Entry(keyA, VArr(<<VInt(1), VInt(2)>>)),
             Entry(keyD, VMap(<<Entry(keyF, VTxt(txtHi))>>))>>) }

StoreWrites ==
    { [path |-> <<>>, value |-> VTxt(txtOk)],
      [path |-> <<KeySeg(keyA)>>, value |-> VInt(-7)],
      [path |-> <<KeySeg(keyA), IdxSeg(1)>>, value |-> VInt(9)],
      [path |-> <<KeySeg(keyA), KeySeg(keyF)>>, value |-> VInt(9)],
      [path |-> <<IdxSeg(0)>>, value |-> VInt(5)] }

InitStore ==
    /\ \E v \in StoreDocs :
          /\ buf = encode(v)
          /\ op = [name |-> "encode", path |-> <<>>, value |-> v]
    /\ inBuf = <<>>
    /\ err = ""
    /\ nops = 0
    /\ heap = <<buf>>
    /\ views = <<1>>
    /\ last = NoAccess
    /\ solo = NoSolo

Returned(held, r) == IF r.out = 0 THEN held ELSE Append(held, r.out)

StoreResult(name, ref, r) ==
    [view |-> ref, kind |-> name, handle |-> NoAccess.handle, seg |-> IdxSeg(0),
     result |-> [t |-> "ref", ref |-> r.out]]

SetPathOn(i, w) ==
    /\ nops < MaxOps
    /\ i \in DOMAIN views
    /\ Bind(setPathStore(heap, views[i], w.path, w.value), LAMBDA r :
           /\ heap' = r.heap
           /\ views' = Returned(views, r)
           /\ err' = r.err
           /\ last' = StoreResult("setPath", views[i], r))
    /\ op' = [name |-> "setPath", path |-> w.path, value |-> w.value]
    /\ nops' = nops + 1
    /\ UNCHANGED <<buf, inBuf, solo>>

VacuumOn(i) ==
    /\ nops < MaxOps
    /\ i \in DOMAIN views
    /\ Bind(vacuumStore(heap, views[i]), LAMBDA r :
           /\ heap' = r.heap
           /\ views' = Returned(views, r)
           /\ err' = r.err
           /\ last' = StoreResult("vacuum", views[i], r))
    /\ op' = [name |-> "vacuum", path |-> <<>>, value |-> VNil]
    /\ nops' = nops + 1
    /\ UNCHANGED <<buf, inBuf, solo>>

CanonicalOn(i) ==
    /\ nops < MaxOps
    /\ i \in DOMAIN views
    /\ Bind(canonicalStore(heap, views[i]), LAMBDA r :
           /\ heap' = r.heap
           /\ views' = Returned(views, r)
           /\ err' = r.err
           /\ last' = StoreResult("canonical", views[i], r))
    /\ op' = [name |-> "canonical", path |-> <<>>, value |-> VNil]
    /\ nops' = nops + 1
    /\ UNCHANGED <<buf, inBuf, solo>>

NextStore ==
    \/ \E i \in 1..(MaxOps + 1), w \in StoreWrites : SetPathOn(i, w)
    \/ \E i \in 1..(MaxOps + 1) : VacuumOn(i)
    \/ \E i \in 1..(MaxOps + 1) : CanonicalOn(i)

SpecStore == InitStore /\ [][NextStore]_vars

\* C11: no operation, succeeding or throwing, changes a byte of an array
\* that exists when it is called, and the array it returns is none of them
C11_InputsUntouched ==
    [][/\ \A i \in DOMAIN heap : i \in DOMAIN heap' /\ heap'[i] = heap[i]
       /\ \A j \in DOMAIN views' : j \notin DOMAIN views => views'[j] \notin DOMAIN heap]_vars

\* a setPath has thrown on the first array after another operation on it
\* had returned a second one
C11_Witness ==
    /\ Len(views) = 2
    /\ nops = 2
    /\ last.kind = "setPath"
    /\ last.view = 1
    /\ err # ""

(***************************************************************************)
(* Further properties of the codec level (specification Spec)              *)
(***************************************************************************)

\* the root of tronBytes is an array some index below its length of which
\* is stored nowhere
RootHasAbsentSlot(tronBytes) ==
    /\ RootIsArr(tronBytes)
    /\ \E j \in 0..(arrayLengthAt(tronBytes, readRootOffset(tronBytes)) - 1) :
          lookupArrayValueOffsetAt(tronBytes, readRootOffset(tronBytes), j) = -1

C13_VacuumIdempotent == vacuum(vacuum(buf)) = vacuum(buf)

\* the buffer carries two earlier versions, which vacuum drops
C13_Witness ==
    /\ nops = 2
    /\ SetPathDone
    /\ readPrevRootOffset(buf) # 0
    /\ readPrevRootOffset(inBuf) # 0
    /\ vacuum(buf) # buf

\* the low three bits of the tag byte at the offset the last 8 bytes of
\* tronBytes name as the root
RootTagType(tronBytes) ==
    BitAnd(tronBytes[readUint32LE(tronBytes, Len(tronBytes) - 8) + 1], 7)

\* C17: on a buffer returned by encode or setPath, detectType says "tree"
\* exactly when the tag at the footer's root offset is an arr or a map tag;
\* the root is a container exactly when the encoded value, or the value
\* setPath installed under the empty path, is one, and always after a
\* setPath under a longer path
C17_DetectType ==
    (op.name \in {"encode", "setPath"} /\ err = "") =>
        /\ detectType(buf) = IF RootTagType(buf) \in {6, 7} THEN "tree" ELSE "scalar"
        /\ Len(op.path) = 0 =>
              (detectType(buf) = IF IsContainer(op.value) THEN "tree" ELSE "scalar")
        /\ Len(op.path) > 0 => detectType(buf) = "tree"

\* setPath with the empty path has replaced a container root by a text
C17_Witness ==
    /\ op.name = "setPath"
    /\ err = ""
    /\ op.path = <<>>
    /\ op.value.t = "txt"
    /\ detectType(inBuf) = "tree"
    /\ detectType(buf) = "scalar"

(***************************************************************************)
(* Host values: encode and setPath are given any value of the host         *)
(* language, among them values the format cannot hold and values that      *)
(* contain themselves. Each behaviour is one call on one input.            *)
(***************************************************************************)
VNum(bits) == [t |-> "f64", bits |-> bits]
VBig(neg, mag) == [t |-> "big", z |-> [neg |-> neg, mag |-> mag]]
VUp(n) == [t |-> "up", n |-> n]

NaN == VNum(<<0, 0, 0, 0, 0, 0, 248, 127>>)
PosInf == VNum(<<0, 0, 0, 0, 0, 0, 240, 127>>)
NegInf == VNum(<<0, 0, 0, 0, 0, 0, 240, 255>>)
OneAndHalf == VNum(<<0, 0, 0, 0, 0, 0, 248, 63>>)

\* 2^63 and -2^63 - 1, the nearest bigints outside the i64 range
BigOver == VBig(FALSE, <<0, 0, 0, 0, 0, 0, 0, 128, 0>>)
BigUnder == VBig(TRUE, <<0, 0, 0, 0, 0, 0, 0, 128, 0>>)

BadLeaves ==
    { NaN, PosInf, NegInf, BigOver, BigUnder,
      [t |-> "undef"], [t |-> "fn"], [t |-> "inst"] }

GoodLeaves ==
    { VInt(1), OneAndHalf, [t |-> "big", z |-> I64Range.max], [t |-> "big", z |-> I64Range.min] }

\* x alone and at nesting depths 1, 2 and 3
Nestings(x) ==
    { x,
      VArr(<<VInt(1), x>>),
      VMap(<<Entry(keyA, VInt(1)), Entry(keyD, VArr(<<x>>))>>),
      VMap(<<Entry(keyA, VArr(<<VInt(1), VMap(<<Entry(keyD, x)>>)>>))>>) }

\* an array that contains itself, a map that contains itself through an
\* array, and a cycle met after and before a value that cannot be stored
CyclicValues ==
    { VArr(<<VUp(1)>>),
      VMap(<<Entry(keyA, VArr(<<VInt(1), VUp(2)>>))>>),
      VArr(<<VUp(1), NaN>>),
      VArr(<<[t |-> "fn"], VUp(1)>>) }

HostValues ==
    UNION {Nestings(x) : x \in BadLeaves \cup GoodLeaves}
    \cup { VArr(<<NaN, [t |-> "undef"]>>), VArr(<<BigOver, VArr(<<PosInf>>)>>) }
    \cup CyclicValues

HostDoc == VMap(<<Entry(keyA, VArr(<<VInt(1), VInt(2)>>))>>)

HostPaths ==
    { <<>>, <<KeySeg(keyA), IdxSeg(0)>>, <<KeySeg(keyM)>>, <<IdxSeg(0)>> }

InitHost ==
    /\ \E v \in HostValues : op = [name |-> "input", path |-> <<>>, value |-> v]
    /\ buf = <<>>
    /\ inBuf = encode(HostDoc)
    /\ err = ""
    /\ nops = 0
    /\ heap = <<>>
    /\ views = <<>>
    /\ last = NoAccess
    /\ solo = NoSolo

\* encode(value): the buffer, or the error and no buffer
EncodeHost ==
    /\ op.name = "input"
    /\ err' = encodeErr(op.value)
    /\ buf' = IF encodeErr(op.value) = "" THEN encode(op.value) ELSE <<>>
    /\ op' = [name |-> "encode", path |-> <<>>, value |-> op.value]
    /\ UNCHANGED <<inBuf, nops, viewVars>>

\* setPath(inBuf, path, value): the buffer, or the error and no buffer
SetPathHost(path) ==
    /\ op.name = "input"
    /\ Bind(setPath(inBuf, path, op.value), LAMBDA r :
           /\ err' = r.err
           /\ buf' = IF r.err = "" THEN r.buf ELSE <<>>)
    /\ op' = [name |-> "setPath", path |-> path, value |-> op.value]
    /\ UNCHANGED <<inBuf, nops, viewVars>>

NextHost ==
    \/ EncodeHost
    \/ \E path \in HostPaths : SetPathHost(path)

SpecHost == InitHost /\ [][NextHost]_vars

RECURSIVE BadKinds(_), HasCycle(_)

\* the errors of the values inside value that the format cannot hold
BadKinds(value) ==
    CASE value.t = "f64" -> IF IsFinite(value.bits) THEN {} ELSE {"num"}
      [] value.t = "big" ->
            IF ZLess(value.z, I64Range.min) \/ ZLess(I64Range.max, value.z) THEN {"range"} ELSE {}
      [] value.t \in {"undef", "fn", "inst"} -> {"type"}
      [] value.t = "arr" -> UNION {BadKinds(value.a[i]) : i \in 1..Len(value.a)}
      [] value.t = "map" -> UNION {BadKinds(value.m[i].v) : i \in 1..Len(value.m)}
      [] OTHER -> {}

\* value contains itself somewhere
HasCycle(value) ==
    CASE value.t = "up" -> TRUE
      [] value.t = "arr" -> \E i \in 1..Len(value.a) : HasCycle(value.a[i])
      [] value.t = "map" -> \E i \in 1..Len(value.m) : HasCycle(value.m[i].v)
      [] OTHER -> FALSE

\* the call that was made could fail on its value argument only
ValueCallDone ==
    /\ op.name \in {"encode", "setPath"}
    /\ ~HasCycle(op.value)
    /\ op.name = "setPath" => Compatible(HostDoc, op.path)

\* C14: encode, and setPath on a path its buffer accepts, given a value that
\* holds a non-finite number, a bigint outside the i64 range or a value of
\* unsupported type at any depth, throw the error of such a value and
\* return no buffer; any other value gives a buffer. A call that has thrown
\* has returned no buffer, whatever it threw.
C14_NoPartialCommit ==
    /\ ValueCallDone =>
          IF BadKinds(op.value) = {} THEN err = "" /\ buf # <<>>
          ELSE err \in BadKinds(op.value) /\ buf = <<>>
    /\ (op.name \in {"encode", "setPath"} /\ err # "") => buf = <<>>

\* setPath has thrown range for a bigint three levels down in its value
C14_Witness ==
    /\ op.name = "setPath"
    /\ op.path = <<KeySeg(keyM)>>
    /\ op.value = VMap(<<Entry(keyA, VArr(<<VInt(1), VMap(<<Entry(keyD, BigOver)>>)>>))>>)
    /\ err = "range"
    /\ buf = <<>>

\* C15: encode of a value that contains itself throws type
C15_CycleFailsWithType ==
    (op.name = "encode" /\ HasCycle(op.value) /\ BadKinds(op.value) = {})
        => err = "type"

(***************************************************************************)
(* Reading a stored i64 through a view opened with an i64 option           *)
(***************************************************************************)

\* the I64 case of decodeValueAt with every mode but "number"
viewDecodeI64Lenient(tronBytes, offset, mode) ==
    LET value == getBigInt64(tronBytes, offset)
    IN  IF mode = "bigint" THEN [t |-> "bigint", z |-> value]
        ELSE IF ZLess(value, SafeRange.min) \/ ZLess(SafeRange.max, value)
        THEN [t |-> "bigint", z |-> value]
        ELSE [t |-> "number", z |-> value]

\* the I64 case of decodeValueAt (tron.ts): a bigint, Number(value) or a
\* throw, by root.options.i64
viewDecodeI64(tronBytes, offset, mode) ==
    LET value == getBigInt64(tronBytes, offset)
    IN  IF mode = "bigint" THEN [t |-> "bigint", z |-> value]
        ELSE IF ZLess(value, SafeRange.min) \/ ZLess(SafeRange.max, value)
        THEN IF mode = "number" THEN [t |-> "err", e |-> "range"]
             ELSE [t |-> "bigint", z |-> value]
        ELSE [t |-> "number", z |-> value]

\* viewOptions = { i64: options.i64 ?? "auto" }; "" is an absent option
viewOptions(i64) == IF i64 = "" THEN "auto" ELSE i64

\* tron(tronBytes, { i64 }) and, on a container, the read of its one
\* element: index 0 of an array, key a of a map
tronReadI64(tronBytes, i64) ==
    LET rootOffset == readRootOffset(tronBytes)
        type == readValueTypeAt(tronBytes, rootOffset)
        valueOffset ==
            IF type = Arr THEN lookupArrayValueOffsetAt(tronBytes, rootOffset, 0)
            ELSE IF type = Map
            THEN lookupMapValueOffsetAt(tronBytes, rootOffset, keyA, xxh32(keyA), 0)
            ELSE rootOffset
    IN  viewDecodeI64(tronBytes, valueOffset, viewOptions(i64))

\* stored integers with, for each, whether it lies in the safe range
\* -(2^53 - 1) .. 2^53 - 1: 0, 1, -1, 2^31, -2^31 - 1, 2^53 - 1, -(2^53 - 1),
\* 2^53, -2^53, 2^53 + 1, -2^53 - 1, 2^63 - 1, -2^63
I64Samples ==
    { [z |-> [neg |-> FALSE, mag |-> <<0, 0, 0, 0, 0, 0, 0, 0, 0>>], safe |-> TRUE],
      [z |-> [neg |-> FALSE, mag |-> <<1, 0, 0, 0, 0, 0, 0, 0, 0>>], safe |-> TRUE],
      [z |-> [neg |-> TRUE, mag |-> <<0, 0, 0, 0, 0, 0, 0, 0, 0>>], safe |-> TRUE],
      [z |-> [neg |-> FALSE, mag |-> <<0, 0, 0, 128, 0, 0, 0, 0, 0>>], safe |-> TRUE],
      [z |-> [neg |-> TRUE, mag |-> <<0, 0, 0, 128, 0, 0, 0, 0, 0>>], safe |-> TRUE],
      [z |-> [neg |-> FALSE, mag |-> <<255, 255, 255, 255, 255, 255, 31, 0, 0>>], safe |-> TRUE],
      [z |-> [neg |-> TRUE, mag |-> <<254, 255, 255, 255, 255, 255, 31, 0, 0>>], safe |-> TRUE],
      [z |-> [neg |-> FALSE, mag |-> <<0, 0, 0, 0, 0, 0, 32, 0, 0>>], safe |-> FALSE],
      [z |-> [neg |-> TRUE, mag |-> <<255, 255, 255, 255, 255, 255, 31, 0, 0>>], safe |-> FALSE],
      [z |-> [neg |-> FALSE, mag |-> <<1, 0, 0, 0, 0, 0, 32, 0, 0>>], safe |-> FALSE],
      [z |-> [neg |-> TRUE, mag |-> <<0, 0, 0, 0, 0, 0, 32, 0, 0>>], safe |-> FALSE],
      [z |-> [neg |-> FALSE, mag |-> <<255, 255, 255, 255, 255, 255, 255, 127, 0>>],
       safe |-> FALSE],
      [z |-> [neg |-> TRUE, mag |-> <<255, 255, 255, 255, 255, 255, 255, 127, 0>>],
       safe |-> FALSE] }

\* 2^53 + 1
UnsafeExample == [neg |-> FALSE, mag |-> <<1, 0, 0, 0, 0, 0, 32, 0, 0>>]

\* the documents that hold x: alone, in an array, in a map
I64Docs(x) ==
    { [t |-> "big", z |-> x],
      VArr(<<[t |-> "big", z |-> x]>>),
      VMap(<<Entry(keyA, [t |-> "big", z |-> x])>>) }

I64Modes == {"", "auto", "number", "bigint"}

InitI64 ==
    /\ \E s \in I64Samples : \E v \in I64Docs(s.z) :
          /\ buf = encode(v)
          /\ op = [name |-> "encode", path |-> <<>>, value |-> v]
    /\ inBuf = <<>>
    /\ err = ""
    /\ nops = 0
    /\ heap = <<>>
    /\ views = <<>>
    /\ last = NoAccess
    /\ solo = NoSolo

\* a view is opened on buf with the given i64 option and the integer is read
ReadI64(i64) ==
    /\ last.kind = "none"
    /\ last' = [view |-> 0, kind |-> "readI64", handle |-> NoAccess.handle,
                seg |-> IdxSeg(0), result |-> tronReadI64(buf, i64)]
    /\ solo' = [heap |-> <<>>, root |-> <<>>, result |-> [t |-> "mode", mode |-> i64]]
    /\ UNCHANGED <<codecVars, heap, views>>

NextI64 == \E i64 \in I64Modes : ReadI64(i64)

SpecI64 == InitI64 /\ [][NextI64]_vars

\* the integer stored in a document of I64Docs
StoredI64(value) ==
    IF value.t = "arr" THEN value.a[1].z
    ELSE IF value.t = "map" THEN value.m[1].v.z
    ELSE value.z

\* C16: under bigint the read gives the bigint x; under auto, and with no
\* option given, the number x when x is in the safe range and the bigint x
\* otherwise; under number the number x when x is in the safe range and a
\* throw of range otherwise
C16_I64Modes ==
    last.kind = "readI64" =>
        \A s \in I64Samples :
            s.z = StoredI64(op.value) =>
                LET mode == solo.result.mode
                    number == [t |-> "number", z |-> s.z]
                    bigint == [t |-> "bigint", z |-> s.z]
                IN  /\ mode = "bigint" => last.result = bigint
                    /\ mode \in {"", "auto"} =>
                          last.result = IF s.safe THEN number ELSE bigint
                    /\ mode = "number" =>
                          last.result = IF s.safe THEN number
                                        ELSE [t |-> "err", e |-> "range"]

\* 2^53 + 1 stored in an array was read under number, which threw range
C16_Witness ==
    /\ last.kind = "readI64"
    /\ op.value = VArr(<<[t |-> "big", z |-> UnsafeExample]>>)
    /\ solo.result.mode = "number"
    /\ last.result = [t |-> "err", e |-> "range"]

(***************************************************************************)
(* Identity of the proxies a view hands out                                *)
(***************************************************************************)

\* the proxies of view v are held under distinct keys by distinct objects
OneProxyPerKey(cache) ==
    \A j, k \in DOMAIN cache : cache[j].proxy.n = cache[k].proxy.n => j = k

\* C18: within one root view, across any sequence of reads and writes, the
\* proxy held for a (container kind, path) stays the same object: no read
\* and no write replaces or drops a proxy of the view's proxyCache, a read
\* that returns a container returns the object held under its kind and
\* path, and no object is held under two keys
C18_StableIdentity ==
    [][\A v \in DOMAIN views :
          /\ \A key \in DOMAIN views[v].proxyCache :
                /\ key \in DOMAIN views'[v].proxyCache
                /\ views'[v].proxyCache[key].proxy = views[v].proxyCache[key].proxy
          /\ OneProxyPerKey(views'[v].proxyCache)
          /\ (last'.view = v /\ last'.kind = "read" /\ last'.result.t = "proxy")
                => ProxyKey(last'.result.kind, last'.result.path)
                       \in DOMAIN views'[v].proxyCache]_vars

\* a read after a write returned a sub-view that was built before the write
C18_Witness ==
    /\ last.kind = "read"
    /\ last.result.t = "proxy"
    /\ last.result.path # <<>>
    /\ ProxyKey(last.result.kind, last.result.path) \in DOMAIN views[last.view].proxyCache
    /\ views[last.view].proxyCache[ProxyKey(last.result.kind, last.result.path)].proxy.born
           < views[last.view].version

(***************************************************************************)
(* Structure of the buffers the codec produces                             *)
(***************************************************************************)
MaxNodeDepth == 12

\* the node at offset lies between the header and the final footer
NodeInside(tronBytes, offset) ==
    LET footerStart == Len(tronBytes) - FOOTER_SIZE
        type == readValueTypeAt(tronBytes, offset)
        lenBytes == IF type = Arr \/ type = Map
                    THEN BitAnd(Shr(tronBytes[offset + 1], 4), 3) + 1
                    ELSE IF (type = Txt \/ type = Bin) /\ BitAnd(tronBytes[offset + 1], 8) = 0
                    THEN Shr(tronBytes[offset + 1], 4)
                    ELSE 0
    IN  /\ offset >= HEADER_SIZE
        /\ offset < footerStart
        /\ offset + 1 + lenBytes <= footerStart
        /\ offset + nodeLenAt(tronBytes, offset) <= footerStart
        /\ (type = Arr \/ type = Map) =>
              LET header == readNodeHeader(tronBytes, offset)
              IN  /\ header.nodeLen >= header.headerSize
                  /\ Len(OffsetFields(tronBytes, offset)) > 0 =>
                        OffsetFields(tronBytes, offset)[Len(OffsetFields(tronBytes, offset))] + 4
                            <= offset + header.nodeLen

RECURSIVE OffsetsInside(_, _, _)
\* the node at offset and every node its offset fields lead to lie inside
OffsetsInside(tronBytes, offset, depth) ==
    /\ depth <= MaxNodeDepth
    /\ NodeInside(tronBytes, offset)
    /\ readValueTypeAt(tronBytes, offset) \in {Arr, Map} =>
          \A i \in DOMAIN OffsetFields(tronBytes, offset) :
             OffsetsInside(tronBytes,
                           readUint32LE(tronBytes, OffsetFields(tronBytes, offset)[i]),
                           depth + 1)

\* C19: in every buffer produced by encode, setPath, vacuum and canonical,
\* the root offset of the footer lies after the 4-byte header and before the
\* final footer, and every child, key and value offset stored in a node
\* reachable from the root designates a node lying entirely between the
\* header and the final footer
C19_OffsetsInside ==
    /\ readRootOffsetErr(buf) = ""
    /\ OffsetsInside(buf, readRootOffset(buf), 1)

\* a successful two-segment write into a buffer: the new root is a map
\* whose offsets lead through a nested container
C19_Witness ==
    /\ SetPathDone
    /\ Len(op.path) = 2
    /\ readValueTypeAt(buf, readRootOffset(buf)) = Map
    /\ \E i \in DOMAIN OffsetFields(buf, readRootOffset(buf)) :
          readValueTypeAt(buf, readUint32LE(buf, OffsetFields(buf, readRootOffset(buf))[i]))
              \in {Arr, Map}

RECURSIVE MapBranchesOrdered(_, _, _), MapValueOffsets(_, _),
          ArrIndices(_, _, _), ArrValueOffsets(_, _), ShapeOK(_, _, _)

\* every branch node of the map below offset stores one child offset per
\* bit of its bitmap, and the keys below its i-th child hash to the i-th
\* set slot, counted from the lowest
MapBranchesOrdered(tronBytes, offset, depth) ==
    LET header == readNodeHeader(tronBytes, offset)
        payloadStart == offset + header.headerSize
        bitmap == readUint32LE(tronBytes, payloadStart)
        slots == ActiveSlots(bitmap)
        children == ReadOffsets(tronBytes, payloadStart + 4, Len(slots))
    IN  header.type = Map
        /\ (~header.isLeaf =>
              /\ bitmap < 65536
              /\ header.nodeLen = header.headerSize + 4 + 4 * popcount16(bitmap)
              /\ Len(slots) = popcount16(bitmap)
              /\ \A i \in 1..Len(slots) :
                    /\ readValueTypeAt(tronBytes, children[i]) = Map
                    /\ \A k \in DOMAIN collectMapKeys(tronBytes, children[i]) :
                          MapSlot(xxh32(collectMapKeys(tronBytes, children[i])[k]), depth)
                              = slots[i]
                    /\ MapBranchesOrdered(tronBytes, children[i], depth + 1))

\* the value offsets of the entries of the map below offset
MapValueOffsets(tronBytes, offset) ==
    LET header == readNodeHeader(tronBytes, offset)
        payloadStart == offset + header.headerSize
    IN  IF header.isLeaf
        THEN {readUint32LE(tronBytes, payloadStart + (i - 1) * 8 + 4) :
                 i \in 1..((header.nodeLen - header.headerSize) \div 8)}
        ELSE UNION {MapValueOffsets(tronBytes,
                        readUint32LE(tronBytes, OffsetFields(tronBytes, offset)[i])) :
                    i \in DOMAIN OffsetFields(tronBytes, offset)}

\* the indices the bitmaps below offset populate: a slot of a branch adds
\* slot << shift to the base, a slot of a leaf adds the slot
ArrIndices(tronBytes, offset, base) ==
    LET header == readNodeHeader(tronBytes, offset)
        payloadStart == offset + header.headerSize
        shift == tronBytes[payloadStart + 1]
        slots == ActiveSlots(readUint16LE(tronBytes, payloadStart + 1))
        fields == OffsetFields(tronBytes, offset)
    IN  IF header.isLeaf THEN {base + slots[i] : i \in 1..Len(slots)}
        ELSE UNION {ArrIndices(tronBytes, readUint32LE(tronBytes, fields[i]),
                               base + slots[i] * (2 ^ shift)) : i \in 1..Len(slots)}

\* the value offsets the leaves of the array below offset store
ArrValueOffsets(tronBytes, offset) ==
    LET fields == OffsetFields(tronBytes, offset)
    IN  IF readNodeHeader(tronBytes, offset).isLeaf
        THEN {readUint32LE(tronBytes, fields[i]) : i \in DOMAIN fields}
        ELSE UNION {ArrValueOffsets(tronBytes, readUint32LE(tronBytes, fields[i])) :
                    i \in DOMAIN fields}

\* the container at offset and every container stored below it is well shaped
ShapeOK(tronBytes, offset, depth) ==
    LET type == readValueTypeAt(tronBytes, offset)
    IN  /\ depth <= MaxNodeDepth
        /\ type = Map =>
              /\ MapBranchesOrdered(tronBytes, offset, 0)
              /\ \A v \in MapValueOffsets(tronBytes, offset) : ShapeOK(tronBytes, v, depth + 1)
        /\ type = Arr =>
              /\ \A i \in ArrIndices(tronBytes, offset, 0) :
                    0 <= i /\ i < arrayLengthAt(tronBytes, offset)
              /\ \A v \in ArrValueOffsets(tronBytes, offset) : ShapeOK(tronBytes, v, depth + 1)

\* C20: in every buffer produced by encode, setPath, vacuum and canonical,
\* every map branch node reachable from the root stores exactly
\* popcount(bitmap) child offsets in ascending slot order, and every index
\* the bitmaps of an array of declared length L populate lies in [0, L)
C20_NodesWellShaped == ShapeOK(buf, readRootOffset(buf), 1)

\* a write has added a key to a map whose root is a branch node, below a
\* slot that is not its highest
C20_Witness ==
    /\ SetPathDone
    /\ readValueTypeAt(buf, readRootOffset(buf)) = Map
    /\ ~readNodeHeader(buf, readRootOffset(buf)).isLeaf
    /\ readValueTypeAt(inBuf, readRootOffset(inBuf)) = Map
    /\ ~readNodeHeader(inBuf, readRootOffset(inBuf)).isLeaf
    /\ LET new == OffsetFields(buf, readRootOffset(buf))
           old == OffsetFields(inBuf, readRootOffset(inBuf))
       IN  /\ Len(new) > Len(old)
           /\ Len(old) > 0
           /\ readUint32LE(buf, new[Len(new)]) = readUint32LE(inBuf, old[Len(old)])

(***************************************************************************)
(* Keys of the maps                                                        *)
(***************************************************************************)
RECURSIVE KeysUnique(_, _, _)

SeqToSet(seq) == {seq[i] : i \in DOMAIN seq}

\* no map at or below offset holds two entries of the same key bytes
KeysUnique(tronBytes, offset, depth) ==
    LET type == readValueTypeAt(tronBytes, offset)
    IN  /\ depth <= MaxNodeDepth
        /\ type = Map =>
              /\ Len(collectMapKeys(tronBytes, offset))
                    = Cardinality(SeqToSet(collectMapKeys(tronBytes, offset)))
              /\ \A v \in MapValueOffsets(tronBytes, offset) :
                    KeysUnique(tronBytes, v, depth + 1)
        /\ type = Arr =>
              \A v \in ArrValueOffsets(tronBytes, offset) :
                 KeysUnique(tronBytes, v, depth + 1)

\* the levels of op.path at which the write met a map of the input: the
\* container under the first j segments is a map and segment j + 1 is a key
MapLevels ==
    {j \in 0..(Len(op.path) - 1) :
        /\ ~op.path[j + 1].isNum
        /\ walkContainerOffset(inBuf, SubSeq(op.path, 1, j), 1, readRootOffset(inBuf)) # -2
        /\ readValueTypeAt(inBuf,
               walkContainerOffset(inBuf, SubSeq(op.path, 1, j), 1, readRootOffset(inBuf)))
              = Map}

\* C21: every map key is unique within its map after any sequence of setPath
\* calls; a write of a key adds an entry only when the key was not there, so
\* the entries of the written map are those of the input and the written
\* key, one entry for each
C21_KeysUnique ==
    /\ KeysUnique(buf, readRootOffset(buf), 1)
    /\ SetPathDone =>
          \A j \in MapLevels :
             LET old == walkContainerOffset(inBuf, SubSeq(op.path, 1, j), 1,
                                            readRootOffset(inBuf))
                 new == walkContainerOffset(buf, SubSeq(op.path, 1, j), 1,
                                            readRootOffset(buf))
             IN  /\ new # -2
                 /\ readValueTypeAt(buf, new) = Map
                 /\ SeqToSet(collectMapKeys(buf, new))
                       = SeqToSet(collectMapKeys(inBuf, old)) \cup {op.path[j + 1].str}
                 /\ Len(collectMapKeys(buf, new))
                       = Cardinality(SeqToSet(collectMapKeys(inBuf, old))
                                        \cup {op.path[j + 1].str})

\* a write of a key the root map already held, next to another key
C21_Witness ==
    /\ SetPathDone
    /\ 0 \in MapLevels
    /\ op.path[1].str \in SeqToSet(collectMapKeys(inBuf, readRootOffset(inBuf)))
    /\ Len(collectMapKeys(buf, readRootOffset(buf))) >= 2

(***************************************************************************)
(* Shifts of the array nodes                                               *)
(***************************************************************************)
RECURSIVE ArrShiftsOK(_, _), SlotPath(_, _), ArraysOK(_, _, _)

\* every child of the array node at offset has the shift of its parent
\* minus 4, and a leaf has shift 0
ArrShiftsOK(tronBytes, offset) ==
    LET header == readNodeHeader(tronBytes, offset)
        shift == arrayShiftAt(tronBytes, offset)
        fields == OffsetFields(tronBytes, offset)
    IN  IF header.isLeaf THEN shift = 0
        ELSE \A i \in DOMAIN fields :
                /\ readValueTypeAt(tronBytes, readUint32LE(tronBytes, fields[i])) = Arr
                /\ arrayShiftAt(tronBytes, readUint32LE(tronBytes, fields[i])) = shift - 4
                /\ ArrShiftsOK(tronBytes, readUint32LE(tronBytes, fields[i]))

\* the slots lookupArrayValueOffsetAt follows for index below a node of shift
SlotPath(index, shift) ==
    IF shift <= 0 THEN <<BitAnd(index, 15)>>
    ELSE <<BitAnd(Shr(index, shift), 15)>> \o SlotPath(index, shift - 4)

\* the array roots at and below offset keep (L - 1) >> s <= 15
ArraysOK(tronBytes, offset, depth) ==
    LET type == readValueTypeAt(tronBytes, offset)
        length == arrayLengthAt(tronBytes, offset)
        shift == arrayShiftAt(tronBytes, offset)
    IN  /\ depth <= MaxNodeDepth
        /\ type = Map =>
              \A v \in MapValueOffsets(tronBytes, offset) : ArraysOK(tronBytes, v, depth + 1)
        /\ type = Arr =>
              /\ length > 0 => Shr(length - 1, shift) <= 15
              /\ ArrShiftsOK(tronBytes, offset)
              /\ \A i, j \in 0..(length - 1) :
                    i # j => SlotPath(i, shift) # SlotPath(j, shift)
              /\ \A v \in ArrValueOffsets(tronBytes, offset) :
                    ArraysOK(tronBytes, v, depth + 1)

\* C22: in every buffer produced by encode followed by setPath calls, every
\* array root of length L > 0 and shift s has (L - 1) >> s <= 15, every
\* child has the shift of its parent minus 4, leaves have shift 0, and two
\* distinct indices below L never follow the same slots
C22_ShiftCoversLength ==
    (nops <= 1 /\ op.name \in {"encode", "setPath"})
        => ArraysOK(buf, readRootOffset(buf), 1)

(***************************************************************************)
(* Writes beyond the length of an array                                    *)
(***************************************************************************)
\* the container of the input the last segment of op.path is applied to
LastContainer(tronBytes) ==
    walkContainerOffset(tronBytes, SubSeq(op.path, 1, Len(op.path) - 1), 1,
                        readRootOffset(tronBytes))

\* the last operation wrote an index at or beyond the length of an array
\* of the input
WriteBeyondLength ==
    /\ SetPathDone
    /\ Len(op.path) >= 1
    /\ op.path[Len(op.path)].isNum
    /\ LastContainer(inBuf) # -2
    /\ readValueTypeAt(inBuf, LastContainer(inBuf)) = Arr
    /\ op.path[Len(op.path)].num >= arrayLengthAt(inBuf, LastContainer(inBuf))

\* C23: writing index i >= L on an array of length L sets the length of its
\* root node to i + 1, appends no value node for the indices L..i-1, and
\* those indices read as nil afterwards
C23_AppendLeavesGap ==
    WriteBeyondLength =>
        LET old == LastContainer(inBuf)
            new == LastContainer(buf)
            index == op.path[Len(op.path)].num
        IN  /\ new # -2
            /\ readValueTypeAt(buf, new) = Arr
            /\ arrayLengthAt(buf, new) = index + 1
            /\ Cardinality(ArrValueOffsets(buf, new) \ ArrValueOffsets(inBuf, old)) <= 1
            /\ \A j \in arrayLengthAt(inBuf, old)..(index - 1) :
                  viewArrayElem(buf, new, j) = VNil

(***************************************************************************)
(* Layout of the buffer setPath returns                                    *)
(***************************************************************************)
RECURSIVE ReachableOffsets(_, _)

\* the offsets of the nodes reachable from the node at offset, itself included
ReachableOffsets(tronBytes, offset) ==
    IF readValueTypeAt(tronBytes, offset) \in {Arr, Map}
    THEN {offset} \cup
         UNION {ReachableOffsets(tronBytes,
                    readUint32LE(tronBytes, OffsetFields(tronBytes, offset)[i])) :
                i \in DOMAIN OffsetFields(tronBytes, offset)}
    ELSE {offset}

\* the nodes of buf that are not nodes of the input: those stored at or
\* behind the place of the input's footer
FreshOffsets ==
    {o \in ReachableOffsets(buf, readRootOffset(buf)) : o >= Len(inBuf) - FOOTER_SIZE}

\* C24: the buffer setPath returns is the input up to but excluding its
\* 8-byte footer, followed directly by the appended nodes and one new
\* footer: the input's footer is not carried over, so the first appended
\* node starts where the input's footer started (a path of at most one
\* segment appends only nodes the new root reaches)
C24_OldFooterDropped ==
    SetPathDone =>
        /\ SubSeq(buf, 1, Len(inBuf) - FOOTER_SIZE)
              = SubSeq(inBuf, 1, Len(inBuf) - FOOTER_SIZE)
        /\ readRootOffset(buf) \in FreshOffsets
        /\ Len(op.path) <= 1 => (Len(inBuf) - FOOTER_SIZE) \in FreshOffsets

(***************************************************************************)
(* Nodes a write appends                                                   *)
(***************************************************************************)
RECURSIVE OnPath(_, _, _, _, _)

\* the nodes of tronBytes on the way from the node at offset to the value
\* stored under path[i..]: the map and array nodes the lookups pass, the
\* key node of each addressed entry, and the nodes of the value itself
OnPath(tronBytes, offset, path, i, depth) ==
    LET header == readNodeHeader(tronBytes, offset)
        payloadStart == offset + header.headerSize
        type == readValueTypeAt(tronBytes, offset)
        fields == OffsetFields(tronBytes, offset)
    IN  IF i > Len(path) THEN ReachableOffsets(tronBytes, offset)
        ELSE IF type = Map /\ ~path[i].isNum
        THEN IF header.isLeaf
             THEN {offset} \cup
                  UNION {{readUint32LE(tronBytes, fields[2 * e - 1])} \cup
                         OnPath(tronBytes, readUint32LE(tronBytes, fields[2 * e]),
                                path, i + 1, 0) :
                         e \in {e \in 1..(Len(fields) \div 2) :
                                   bytesEqual(readTxtBytesAt(tronBytes,
                                       readUint32LE(tronBytes, fields[2 * e - 1])),
                                       path[i].str)}}
             ELSE LET bitmap == readUint32LE(tronBytes, payloadStart)
                      slot == MapSlot(xxh32(path[i].str), depth)
                      rank == popcount16(BitAnd(bitmap, (2 ^ slot) - 1))
                  IN  IF SlotBit(bitmap, slot) = 0 THEN {offset}
                      ELSE {offset} \cup
                           OnPath(tronBytes, readUint32LE(tronBytes, fields[rank + 1]),
                                  path, i, depth + 1)
        ELSE IF type = Arr /\ path[i].isNum
        THEN LET shift == tronBytes[payloadStart + 1]
                 bitmap == readUint16LE(tronBytes, payloadStart + 1)
                 slot == IF header.isLeaf THEN BitAnd(path[i].num, 15)
                         ELSE BitAnd(Shr(path[i].num, shift), 15)
                 rank == popcount16(BitAnd(bitmap, (2 ^ slot) - 1))
             IN  IF SlotBit(bitmap, slot) = 0 THEN {offset}
                 ELSE {offset} \cup
                      OnPath(tronBytes, readUint32LE(tronBytes, fields[rank + 1]), path,
                             IF header.isLeaf THEN i + 1 ELSE i, 0)
        ELSE {offset}

\* C25: in the output of setPath the only freshly appended nodes are those
\* on the exact path from the root to the updated leaf; every sibling
\* subtree, the key nodes and value nodes of the other entries of a rebuilt
\* map leaf and the other slots of a rebuilt array node included, is
\* referenced by an offset of the input
C25_OnlyPathIsFresh ==
    SetPathDone => FreshOffsets \subseteq OnPath(buf, readRootOffset(buf), op.path, 1, 0)

(***************************************************************************)
(* Maps under key writes: the document is a map encoded from a set of      *)
(* keys, two of them with one hash, and every operation writes a key       *)
(***************************************************************************)
MapInits == {MapOf(sel) : sel \in {{}, {7}, {7, 8}, {3, 4}, {1, 2, 7, 8}}}

MapWrites ==
    {[path |-> <<KeySeg(k)>>, value |-> VInt(9)] : k \in {keyA, keyF, keyI, keyTqt, keyDluw}}
    \cup {[path |-> <<KeySeg(keyTqt), KeySeg(keyDluw)>>, value |-> VTxt(txtOk)],
          [path |-> <<KeySeg(keyTqt), KeySeg(keyTqt)>>, value |-> VNil]}

InitMap ==
    /\ \E v \in MapInits :
          /\ buf = encode(v)
          /\ op = [name |-> "encode", path |-> <<>>, value |-> v]
    /\ inBuf = <<>>
    /\ err = ""
    /\ nops = 0
    /\ heap = <<>>
    /\ views = <<>>
    /\ last = NoAccess
    /\ solo = NoSolo

NextMap == \E w \in MapWrites : SetPath(w)

SpecMap == InitMap /\ [][NextMap]_vars

RECURSIVE BranchLevels(_, _), MapsShallow(_, _, _)

\* the depths at which the map below offset, itself at depth, has branch nodes
BranchLevels(tronBytes, offset) ==
    IF readNodeHeader(tronBytes, offset).isLeaf THEN {}
    ELSE {0} \cup
         {d + 1 : d \in UNION {BranchLevels(tronBytes,
                                   readUint32LE(tronBytes, OffsetFields(tronBytes, offset)[i])) :
                               i \in DOMAIN OffsetFields(tronBytes, offset)}}

\* no map at or below offset has a branch node below depth maxDepth32 - 1
MapsShallow(tronBytes, offset, depth) ==
    LET type == readValueTypeAt(tronBytes, offset)
    IN  /\ depth <= MaxNodeDepth
        /\ type = Map =>
              /\ \A d \in BranchLevels(tronBytes, offset) : d <= maxDepth32 - 1
              /\ \A v \in MapValueOffsets(tronBytes, offset) :
                    MapsShallow(tronBytes, v, depth + 1)
        /\ type = Arr =>
              \A v \in ArrValueOffsets(tronBytes, offset) :
                 MapsShallow(tronBytes, v, depth + 1)

\* C26: in every buffer produced by encode followed by setPath calls no map
\* branch node lies below depth 6, and setPath never fails with `depth`,
\* keys whose hashes agree on all 7 low nibbles included
C26_NoDepthError ==
    /\ MapsShallow(buf, readRootOffset(buf), 1)
    /\ err # "depth"

\* a write of a key into a map that held two keys of one hash in a leaf
\* below seven branch levels
C26_Witness ==
    /\ SetPathDone
    /\ op.path[1].str \in {keyTqt, keyDluw}
    /\ readValueTypeAt(inBuf, readRootOffset(inBuf)) = Map
    /\ (maxDepth32 - 1) \in BranchLevels(inBuf, readRootOffset(inBuf))
    /\ (maxDepth32 - 1) \in BranchLevels(buf, readRootOffset(buf))

\* the offset the view's lookup finds for keyBytes in the root map of
\* tronBytes, -1 when it finds none
RootLookup(tronBytes, keyBytes) ==
    lookupMapValueOffsetAt(tronBytes, readRootOffset(tronBytes), keyBytes,
                           xxh32(keyBytes), 0)

\* C27: in every buffer produced by encode followed by setPath calls each
\* entry lies in the leaf its hash slots lead to, and the view's lookup
\* finds the last value written for every key that is present and nothing
\* for every other key: after encode the entries of the value, after a write
\* the written key at its new value and every other key where it was
C27_LookupFindsLastWrite ==
    /\ MapBranchesOrdered(buf, readRootOffset(buf), 0)
    /\ nops = 0 =>
          \A i \in DOMAIN AllKeys :
             IF \E e \in DOMAIN op.value.m : op.value.m[e].k = AllKeys[i]
             THEN /\ RootLookup(buf, AllKeys[i]) # -1
                  /\ \E e \in DOMAIN op.value.m :
                        /\ op.value.m[e].k = AllKeys[i]
                        /\ viewValueAt(buf, RootLookup(buf, AllKeys[i])) = op.value.m[e].v
             ELSE RootLookup(buf, AllKeys[i]) = -1
    /\ SetPathDone =>
          \A i \in DOMAIN AllKeys :
             IF AllKeys[i] # op.path[1].str
             THEN RootLookup(buf, AllKeys[i]) = RootLookup(inBuf, AllKeys[i])
             ELSE /\ RootLookup(buf, AllKeys[i]) # -1
                  /\ IF Len(op.path) = 1
                     THEN viewValueAt(buf, RootLookup(buf, AllKeys[i])) = op.value
                     ELSE /\ readValueTypeAt(buf, RootLookup(buf, AllKeys[i])) = Map
                          /\ lookupMapValueOffsetAt(buf, RootLookup(buf, AllKeys[i]),
                                 op.path[2].str, xxh32(op.path[2].str), 0) # -1
                          /\ viewValueAt(buf,
                                 lookupMapValueOffsetAt(buf, RootLookup(buf, AllKeys[i]),
                                     op.path[2].str, xxh32(op.path[2].str), 0))
                                = op.value

\* the second write overwrote a key the first write had added, in a root
\* whose branch holds the key behind another child
C27_Witness ==
    /\ SetPathDone
    /\ nops = 2
    /\ Len(op.path) = 1
    /\ RootLookup(inBuf, op.path[1].str) # -1
    /\ ~readNodeHeader(buf, readRootOffset(buf)).isLeaf
    /\ popcount16(BitAnd(readUint32LE(buf, readRootOffset(buf)
                             + readNodeHeader(buf, readRootOffset(buf)).headerSize),
                         (2 ^ MapSlot(xxh32(op.path[1].str), 0)) - 1)) >= 1

(***************************************************************************)
(* The version counter of a view                                           *)
(***************************************************************************)
\* the last step was a write through view v that setPath accepted
WroteThrough(v, access) ==
    access.view = v /\ access.kind = "write" /\ access.result.e = ""

\* C28: the version of a view starts at 0; a successful write through the
\* root proxy or a sub-proxy of the view raises it by exactly 1 and, in the
\* same step, makes the view refer to the buffer setPath returned; a read,
\* a refused defineProperty or deleteProperty, an assignment to an array's
\* length, a write that throws and a write through another view leave the
\* version and the buffer reference as they were
C28_VersionCountsWrites ==
    /\ \A v \in DOMAIN views : views[v].version = 0
    /\ [][\A v \in DOMAIN views :
             IF WroteThrough(v, last')
             THEN /\ views'[v].version = views[v].version + 1
                  /\ views'[v].tronBytes \notin DOMAIN heap
                  /\ \E value \in ViewWrites \cup FirstWrites :
                        heap'[views'[v].tronBytes]
                           = setPath(heap[views[v].tronBytes],
                                     Append(last'.handle.path, last'.seg), value).buf
             ELSE /\ views'[v].version = views[v].version
                  /\ views'[v].tronBytes = views[v].tronBytes]_vars

\* a write through a sub-proxy was the second successful write of the view,
\* after which a write that throws left the version at 2
C28_Witness ==
    /\ last.view = 2
    /\ last.kind = "write"
    /\ last.result.e # ""
    /\ views[2].version = 2
    /\ views[2].tronBytes = Len(heap)

(***************************************************************************)
(* Layout of the buffer vacuum returns                                     *)
(***************************************************************************)
\* the nodes at offsets lie one behind the other from the header to the
\* footer of tronBytes, without a gap and without an overlap
Contiguous(tronBytes, offsets) ==
    /\ HEADER_SIZE \in offsets
    /\ \A o \in offsets :
          \/ o + nodeLenAt(tronBytes, o) = Len(tronBytes) - FOOTER_SIZE
          \/ (o + nodeLenAt(tronBytes, o)) \in offsets
    /\ \A o, p \in offsets :
          o < p => o + nodeLenAt(tronBytes, o) <= p
    /\ \E o \in offsets : o + nodeLenAt(tronBytes, o) = Len(tronBytes) - FOOTER_SIZE

\* a buffer whose root array [nil, nil] stores the offset of one nil node in
\* both of its slots
SharedChild ==
    MAGIC \o <<Nil>> \o <<14, 17, 0, 3, 0, 2, 0, 0, 0, 4, 0, 0, 0, 4, 0, 0, 0>>
          \o writeUint32LE(5) \o writeUint32LE(0)

\* C29: between its header and its footer the output of vacuum holds
\* exactly the nodes reachable from the current root of the input, one copy
\* of each, laid out without gaps; nodes reachable only from earlier roots
\* are left out, and the output is never longer than the input; a child
\* that two slots refer to is copied once and both slots refer to the copy
C29_VacuumCompact ==
    op.name = "vacuum" =>
        /\ vacuum(SharedChild) = SharedChild
        /\ Cardinality(ReachableOffsets(buf, readRootOffset(buf)))
              = Cardinality(ReachableOffsets(inBuf, readRootOffset(inBuf)))
        /\ Contiguous(buf, ReachableOffsets(buf, readRootOffset(buf)))
        /\ Len(buf) <= Len(inBuf)

\* vacuum of a buffer with an earlier root whose nodes the current root of
\* nested containers no longer reaches
C29_Witness ==
    /\ op.name = "vacuum"
    /\ readPrevRootOffset(inBuf) # 0
    /\ Len(buf) < Len(inBuf)
    /\ Cardinality(ReachableOffsets(buf, readRootOffset(buf))) >= 5
    /\ ~Contiguous(inBuf, ReachableOffsets(inBuf, readRootOffset(inBuf)))

(***************************************************************************)
(* Order of the keys of a value given to encode                            *)
(***************************************************************************)
MaxPermLen == 4

RECURSIVE Reversed(_)

\* value with the entries of every map, at every level, listed backwards
Reversed(value) ==
    IF value.t = "map"
    THEN [t |-> "map",
          m |-> [i \in 1..Len(value.m) |->
                    [k |-> value.m[Len(value.m) + 1 - i].k,
                     v |-> Reversed(value.m[Len(value.m) + 1 - i].v)]]]
    ELSE IF value.t = "arr"
    THEN [t |-> "arr", a |-> [i \in 1..Len(value.a) |-> Reversed(value.a[i])]]
    ELSE value

\* other orders of the entries m of a map: every order of up to MaxPermLen
\* entries, every rotation of more
Reorderings(m) ==
    IF Len(m) <= MaxPermLen
    THEN {[i \in 1..Len(m) |-> m[p[i]]] : p \in Permutations(1..Len(m))}
    ELSE {[i \in 1..Len(m) |-> m[((i + r - 1) % Len(m)) + 1]] : r \in 1..Len(m)}

\* C30: encode does not depend on the order in which the keys of a map are
\* listed: a value and the same value with its keys in another order encode
\* to the same bytes
C30_KeyOrderIrrelevant ==
    op.name = "encode" =>
        /\ encode(Reversed(op.value)) = buf
        /\ op.value.t = "map" =>
              \A m \in Reorderings(op.value.m) : encode([t |-> "map", m |-> m]) = buf

\* the value is a map of four keys, two of them with one hash, that share a
\* sorted leaf below seven branch levels
C30_Witness ==
    /\ op.name = "encode"
    /\ op.value.t = "map"
    /\ Len(op.value.m) = MaxPermLen
    /\ \E i, j \in DOMAIN op.value.m : op.value.m[i].k = keyTqt /\ op.value.m[j].k = keyDluw
    /\ Reversed(op.value) # op.value
    /\ (maxDepth32 - 1) \in BranchLevels(buf, readRootOffset(buf))

====
